---- MODULE Spec2Model ----
(***************************************************************************)
(* Model of the two filesystem discovery caches of launchedit:             *)
(*   IconCache  (src/src/xdghelp.rs)  and  MimeCache (src/src/mimelist.rs) *)
(*                                                                         *)
(* Strings are modelled structurally so that the conversions the code      *)
(* applies to them are computed, not assumed:                              *)
(*   - a file or directory name is the sequence of its '.'-separated       *)
(*     segments:  "foo.svg.png" is <<"foo","svg","png">>, "foo" is         *)
(*     <<"foo">>, ".local" is <<"",  "local">>;                            *)
(*   - a path is the sequence of its components (each one a name);         *)
(*   - Option<T> is a sequence of length at most one: None is <<>> and     *)
(*     Some(x) is <<x>>.                                                   *)
(***************************************************************************)
EXTENDS Integers, Sequences, FiniteSets, TLC

VARIABLES
    env,              \* process environment read by the scans
    files,            \* icon side of the filesystem: paths of the non-directory entries
    by_full_name,     \* IconCache.by_full_name   : file name -> path
    by_name_no_ext,   \* IconCache.by_name_no_ext : file stem -> path
    icon_op,          \* last operation on the icon side: "new", "scan", "fs"
    icon_scans,       \* number of IconCache::scan calls so far
    icon_ret,         \* the IconCache::lookup call that is returning: its argument and result
    pkgs,             \* mime side of the filesystem: the entries below the package directories
    alias_files,      \* mime side of the filesystem: the alias files
    mime_descriptions,\* MimeCache.mime_descriptions : MIME type -> description
    mime_op,          \* last operation on the mime side: "new", "scan", "fs"
    mime_cleared,     \* number of entries discarded by the clear() of the scan that just ran
    mime_order,       \* the directory entries the scan that just ran met, in the order it met them
    mime_ret,         \* the MimeCache::lookup call that is returning: its argument and result
    app,              \* the AppModel that owns the two caches, and where its run stands
    run               \* the scan that is running step by step, and where it stands

icon_vars == <<files, by_full_name, by_name_no_ext, icon_op, icon_scans, icon_ret>>
mime_vars == <<pkgs, alias_files, mime_descriptions, mime_op, mime_cleared, mime_order, mime_ret>>
vars == <<env, icon_vars, mime_vars, app, run>>

----------------------------------------------------------------------------
(* Bounds *)

MaxFiles == 3       \* icon files present on disk at the same time
MaxScans == 2       \* calls of IconCache::scan (the one of Default included)
MaxPkgFiles == 2    \* entries below the MIME package directories at the same time
MaxAliasFiles == 2  \* alias files present at the same time
MaxMessages == 3    \* calls of AppModel::update and AppModel::view after init
MaxEdits == 4       \* messages handled by AppModel::update in an editing session

----------------------------------------------------------------------------
(* Generic helpers *)

None == <<>>
Some(x) == <<x>>

\* A path whose components have no '.' in them
P(s) == [i \in DOMAIN s |-> <<s[i]>>]

IsPrefix(p, q) == Len(p) <= Len(q) /\ SubSeq(q, 1, Len(p)) = p

EmptyMap == <<>>

\* HashMap::entry(k).or_insert(v)
or_insert(m, k, v) == IF k \in DOMAIN m THEN m ELSE m @@ (k :> v)

\* HashMap::get(k)
get(m, k) == IF k \in DOMAIN m THEN Some(m[k]) ELSE None

\* HashMap::insert(k, v)
insert(m, k, v) == (k :> v) @@ m

\* An environment variable is unset (None) or set to a value that is valid
\* Unicode or not.  std::env::var_os sees every set variable, std::env::var
\* only the Unicode ones.
Str(v) == Some([unicode |-> TRUE, v |-> v])
NotUnicode == Some([unicode |-> FALSE, v |-> <<>>])
var_os(e, k) == e[k]
var(e, k) == IF e[k] # None /\ e[k][1].unicode THEN Some(e[k][1].v) ELSE None

----------------------------------------------------------------------------
(* std::path::Path accessors used by scan_dir *)

file_name(path) == path[Len(path)]

DotDot == <<"", "", "">>

\* Path::extension: the part after the last '.', None when the name has no
\* '.' or only a leading one
extension(path) ==
    LET f == file_name(path) IN
    IF f = DotDot \/ Len(f) = 1 \/ (Len(f) = 2 /\ f[1] = "")
    THEN None
    ELSE Some(f[Len(f)])

\* Path::file_stem: the part before the last '.', the whole name when
\* extension() is None
file_stem(path) ==
    LET f == file_name(path) IN
    IF f = DotDot \/ Len(f) = 1 \/ (Len(f) = 2 /\ f[1] = "")
    THEN f
    ELSE SubSeq(f, 1, Len(f) - 1)

----------------------------------------------------------------------------
(* IconCache *)

THEMES == <<"cosmic", "Adwaita", "hicolor">>
SIZES == <<"scalable", "512x512", "256x256", "128x128", "64x64", "48x48",
           "32x32", "24x24", "16x16">>
CONTEXTS == <<"apps", "places", "mimetypes", "actions">>

exts == {"png", "svg", "xpm", "ico", "jpg", "jpeg"}

\* icon_search_dirs with the system directories pushed before the user one
icon_search_dirs_system_first(e) ==
    LET user == IF var(e, "XDG_DATA_HOME") # None
                THEN << var(e, "XDG_DATA_HOME")[1] \o P(<<"icons">>) >>
                ELSE IF e.HOME # None
                THEN << e.HOME[1] \o <<<<"", "local">>>> \o P(<<"share", "icons">>) >>
                ELSE << >>
        sys == IF var(e, "XDG_DATA_DIRS") # None
               THEN [i \in DOMAIN var(e, "XDG_DATA_DIRS")[1] |->
                        var(e, "XDG_DATA_DIRS")[1][i] \o P(<<"icons">>)]
               ELSE << P(<<"usr", "local", "share", "icons">>),
                       P(<<"usr", "share", "icons">>) >>
        host == IF var_os(e, "FLATPAK_ID") # None
                THEN << P(<<"run", "host", "usr", "share", "icons">>),
                        P(<<"run", "host", "share", "icons">>) >>
                ELSE << >>
    IN sys \o user \o host \o << P(<<"usr", "share", "pixmaps">>) >>

\* IconCache::icon_search_dirs
icon_search_dirs(e) ==
    LET user == IF var(e, "XDG_DATA_HOME") # None
                THEN << var(e, "XDG_DATA_HOME")[1] \o P(<<"icons">>) >>
                ELSE IF e.HOME # None
                THEN << e.HOME[1] \o <<<<"", "local">>>> \o P(<<"share", "icons">>) >>
                ELSE << >>
        sys == IF var(e, "XDG_DATA_DIRS") # None
               THEN [i \in DOMAIN var(e, "XDG_DATA_DIRS")[1] |->
                        var(e, "XDG_DATA_DIRS")[1][i] \o P(<<"icons">>)]
               ELSE << P(<<"usr", "local", "share", "icons">>),
                       P(<<"usr", "share", "icons">>) >>
        host == IF var_os(e, "FLATPAK_ID") # None
                THEN << P(<<"run", "host", "usr", "share", "icons">>),
                        P(<<"run", "host", "share", "icons">>) >>
                ELSE << >>
    IN user \o sys \o host \o << P(<<"usr", "share", "pixmaps">>) >>

\* The entries fs::read_dir(root) yields: empty when root is not a directory
Under(fs, root) == {f \in fs : Len(f) > Len(root) /\ IsPrefix(root, f)}
read_dir(fs, root) == {f[Len(root) + 1] : f \in Under(fs, root)}

\* Position of a directory entry in the enumeration of its directory.  The
\* order read_dir yields entries in is not specified; rank is the choice
\* made for one scan.
EntryRank(fs, rank, path) ==
    LET below == {f \in fs : IsPrefix(path, f)}
    IN CHOOSE r \in {rank[f] : f \in below} : \A f \in below : r <= rank[f]

\* index_file with HashMap::insert in place of entry().or_insert()
index_file_overwrite(cache, path) ==
    LET ext == extension(path) IN
    IF ext # None /\ ext[1] \in exts
    THEN [full |-> insert(cache.full, file_name(path), path),
          stem |-> insert(cache.stem, file_stem(path), path)]
    ELSE cache

\* index_file with HashMap::insert for by_full_name only
index_file_overwrite_full(cache, path) ==
    LET ext == extension(path) IN
    IF ext # None /\ ext[1] \in exts
    THEN [full |-> insert(cache.full, file_name(path), path),
          stem |-> or_insert(cache.stem, file_stem(path), path)]
    ELSE cache

\* index_file with HashMap::insert for by_name_no_ext only
index_file_overwrite_stem(cache, path) ==
    LET ext == extension(path) IN
    IF ext # None /\ ext[1] \in exts
    THEN [full |-> or_insert(cache.full, file_name(path), path),
          stem |-> insert(cache.stem, file_stem(path), path)]
    ELSE cache

\* The body of the `for entry in entries` loop for a non-directory entry
index_file(cache, path) ==
    LET ext == extension(path) IN
    IF ext # None /\ ext[1] \in exts
    THEN [full |-> or_insert(cache.full, file_name(path), path),
          stem |-> or_insert(cache.stem, file_stem(path), path)]
    ELSE cache

RECURSIVE scan_entries(_, _, _, _, _)
\* IconCache::scan_dir
scan_dir(cache, fs, rank, root) ==
    scan_entries(cache, fs, rank, root, read_dir(fs, root))

scan_entries(cache, fs, rank, root, todo) ==
    IF todo = {} THEN cache
    ELSE LET e == CHOOSE x \in todo : \A y \in todo :
                     EntryRank(fs, rank, root \o <<x>>) <= EntryRank(fs, rank, root \o <<y>>)
             path == root \o <<e>>
             next == IF path \in fs
                     THEN index_file(cache, path)
                     ELSE scan_dir(cache, fs, rank, path)
         IN scan_entries(next, fs, rank, root, todo \ {e})

\* The nested `for theme / for size / for ctx` loops of scan: the relative
\* directories one base contributes, in the order the loops visit them
ThemeDirs ==
    [k \in 1 .. (Len(THEMES) * Len(SIZES) * Len(CONTEXTS)) |->
        LET t == ((k - 1) \div (Len(SIZES) * Len(CONTEXTS))) + 1
            s == (((k - 1) \div Len(CONTEXTS)) % Len(SIZES)) + 1
            c == ((k - 1) % Len(CONTEXTS)) + 1
        IN P(<<THEMES[t], SIZES[s], CONTEXTS[c]>>)]

\* ... followed by base/pixmaps
BaseDirs == ThemeDirs \o << P(<<"pixmaps">>) >>

\* The roots scan hands to scan_dir, over all bases, in call order
ScanRoots(bases) ==
    [j \in 1 .. (Len(bases) * Len(BaseDirs)) |->
        bases[((j - 1) \div Len(BaseDirs)) + 1] \o BaseDirs[((j - 1) % Len(BaseDirs)) + 1]]

RECURSIVE FoldRoots(_, _, _, _, _)
FoldRoots(cache, fs, rank, roots, i) ==
    IF i > Len(roots) THEN cache
    ELSE FoldRoots(scan_dir(cache, fs, rank, roots[i]), fs, rank, roots, i + 1)

\* The position of a relative directory in BaseDirs
BaseDirIndex ==
    [d \in {BaseDirs[k] : k \in DOMAIN BaseDirs} |->
        CHOOSE k \in DOMAIN BaseDirs : BaseDirs[k] = d]

RECURSIVE Ascending(_)
Ascending(S) ==
    IF S = {} THEN << >>
    ELSE LET m == CHOOSE x \in S : \A y \in S : x <= y
         IN <<m>> \o Ascending(S \ {m})

\* The roots among ScanRoots that read_dir can list, in call order.
\* scan_dir returns at once on the others
\* (`let Ok(entries) = fs::read_dir(root) else { return }`).  A root is
\* listable when it is the directory of some file: the calls are found from
\* the files, by the base and the BaseDirs entry their path starts with.
ListableRoots(e, fs) ==
    LET bases == icon_search_dirs(e)
        calls == {((c[1] - 1) * Len(BaseDirs)) + BaseDirIndex[c[2]] :
                    c \in {<<b, SubSeq(f, Len(bases[b]) + 1, Len(bases[b]) + n)>> :
                              <<b, f, n>> \in {x \in (DOMAIN bases) \X fs \X {1, 3} :
                                  /\ IsPrefix(bases[x[1]], x[2])
                                  /\ Len(x[2]) > Len(bases[x[1]]) + x[3]
                                  /\ SubSeq(x[2], Len(bases[x[1]]) + 1, Len(bases[x[1]]) + x[3])
                                        \in DOMAIN BaseDirIndex}}}
        order == Ascending(calls)
    IN [i \in DOMAIN order |-> ScanRoots(bases)[order[i]]]

\* IconCache::scan: the scan_dir calls over roots, in call order
scan(cache, roots, fs, rank) == FoldRoots(cache, fs, rank, roots, 1)

\* lookup consulting the stem index first
lookup_stem_first(full, stem, name) ==
    IF get(stem, name) # None THEN get(stem, name)
    ELSE IF get(full, name) # None THEN get(full, name)
    ELSE None

\* IconCache::lookup
lookup(full, stem, name) ==
    IF get(full, name) # None THEN get(full, name)
    ELSE IF get(stem, name) # None THEN get(stem, name)
    ELSE None


----------------------------------------------------------------------------
(* MimeCache *)

(* A string of the mime side is the sequence of its pieces: a piece is one *)
(* whitespace character (" " or "\t"), the character "#", or a run of      *)
(* other characters.  "text/markdown text/x-markdown" is                   *)
(* <<"text/markdown", " ", "text/x-markdown">>.                            *)
WS == {" ", "\t"}

RECURSIVE trim_start(_)
trim_start(s) == IF s # <<>> /\ Head(s) \in WS THEN trim_start(Tail(s)) ELSE s

RECURSIVE trim_end(_)
trim_end(s) ==
    IF s # <<>> /\ s[Len(s)] \in WS THEN trim_end(SubSeq(s, 1, Len(s) - 1)) ELSE s

\* str::trim
trim(s) == trim_end(trim_start(s))

\* str::split_once(char::is_whitespace)
split_once(s) ==
    IF \E i \in DOMAIN s : s[i] \in WS
    THEN LET i == CHOOSE k \in DOMAIN s : s[k] \in WS /\ \A j \in 1 .. (k - 1) : s[j] \notin WS
         IN Some(<<SubSeq(s, 1, i - 1), SubSeq(s, i + 1, Len(s))>>)
    ELSE None

\* candidate_mime_dirs with the local-system directory first
candidate_mime_dirs_local_first(e) ==
    IF var_os(e, "FLATPAK_ID") # None
    THEN << P(<<"run", "host", "usr", "share", "mime", "packages">>),
            P(<<"run", "host", "share", "mime", "packages">>),
            P(<<"usr", "share", "mime", "packages">>) >>
    ELSE << P(<<"usr", "local", "share", "mime", "packages">>),
            P(<<"usr", "share", "mime", "packages">>) >>

\* MimeCache::candidate_mime_dirs
candidate_mime_dirs(e) ==
    IF var_os(e, "FLATPAK_ID") # None
    THEN << P(<<"run", "host", "usr", "share", "mime", "packages">>),
            P(<<"run", "host", "share", "mime", "packages">>),
            P(<<"usr", "share", "mime", "packages">>) >>
    ELSE << P(<<"usr", "share", "mime", "packages">>),
            P(<<"usr", "local", "share", "mime", "packages">>) >>

\* The `paths` vector of get_mime_aliases
alias_paths(e) ==
    << P(<<"usr", "share", "mime", "aliases">>),
       P(<<"usr", "local", "share", "mime", "aliases">>) >>
    \o (IF var(e, "FLATPAK_ID") # None
        THEN (IF var(e, "FLATPAK_RUNTIME_DIR") # None
              THEN << var(e, "FLATPAK_RUNTIME_DIR")[1] \o P(<<"mime", "aliases">>) >>
              ELSE << >>)
             \o << P(<<"app", "share", "mime", "aliases">>),
                   P(<<"usr", "share", "mime", "aliases">>) >>
        ELSE << >>)

\* alias_line that keeps the first alias of a key
alias_line_keep_first(aliases, line) ==
    LET trimmed == trim(line) IN
    IF trimmed = <<>> \/ trimmed[1] = "#" THEN aliases
    ELSE LET sp == split_once(trimmed) IN
         IF sp = None THEN aliases
         ELSE LET alias == sp[1][1]
                  canon == sp[1][2]
              IN or_insert(aliases, canon, alias)

\* The body of the `for line in reader.lines()` loop
alias_line(aliases, line) ==
    LET trimmed == trim(line) IN
    IF trimmed = <<>> \/ trimmed[1] = "#" THEN aliases
    ELSE LET sp == split_once(trimmed) IN
         IF sp = None THEN aliases
         ELSE LET alias == sp[1][1]
                  canon == sp[1][2]
              IN insert(aliases, canon, alias)

RECURSIVE alias_lines(_, _, _)
alias_lines(aliases, lines, i) ==
    IF i > Len(lines) THEN aliases
    ELSE alias_lines(alias_line(aliases, lines[i]), lines, i + 1)

\* fs::File::open(path) on the alias files: the lines of the file, None
\* when it cannot be opened
open_alias(afs, path) ==
    IF \E f \in afs : f.path = path
    THEN Some((CHOOSE f \in afs : f.path = path).lines)
    ELSE None

\* alias_paths_loop that returns at the first file it cannot open
RECURSIVE alias_paths_loop_stop_at_missing(_, _, _, _)
alias_paths_loop_stop_at_missing(aliases, afs, paths, i) ==
    IF i > Len(paths) THEN aliases
    ELSE LET file == open_alias(afs, paths[i])
         IN IF file = None THEN aliases
            ELSE alias_paths_loop_stop_at_missing(alias_lines(aliases, file[1], 1),
                                                  afs, paths, i + 1)

RECURSIVE alias_paths_loop(_, _, _, _)
alias_paths_loop(aliases, afs, paths, i) ==
    IF i > Len(paths) THEN aliases
    ELSE LET file == open_alias(afs, paths[i])
         IN alias_paths_loop(IF file # None THEN alias_lines(aliases, file[1], 1) ELSE aliases,
                             afs, paths, i + 1)

\* MimeCache::get_mime_aliases
get_mime_aliases(e, afs) == alias_paths_loop(EmptyMap, afs, alias_paths(e), 1)

\* The path is a directory: File::open succeeds on it and every read fails
is_dir(afs, path) == \E f \in afs : f.path = path /\ f.kind = "dir"

\* get_mime_aliases returns: none of its paths is a directory, on which
\* `reader.lines().flatten()` never yields None
get_mime_aliases_returns(e, afs) ==
    \A i \in DOMAIN alias_paths(e) : ~is_dir(afs, alias_paths(e)[i])

\* langs.iter().position(|l| l == lang_attr)
position(langs, lang) ==
    IF \E i \in DOMAIN langs : langs[i] = lang
    THEN Some(CHOOSE i \in DOMAIN langs : langs[i] = lang /\ \A j \in 1 .. (i - 1) : langs[j] # lang)
    ELSE None

\* comment_step that keeps the first localized match whatever its position
comment_step_first_match(acc, child, langs) ==
    LET txt == trim(child.text) IN
    IF txt = <<>> THEN acc
    ELSE IF child.lang # None
    THEN LET pos == position(langs, child.lang[1]) IN
         IF pos = None THEN acc
         ELSE IF acc.best_score # None THEN acc
         ELSE [acc EXCEPT !.best_score = Some(pos[1]), !.best_text = Some(txt)]
    ELSE [acc EXCEPT !.fallback_unlocalized = Some(txt)]

\* comment_step that lets a comment of the same position replace the best
comment_step_ties_replace(acc, child, langs) ==
    LET txt == trim(child.text) IN
    IF txt = <<>> THEN acc
    ELSE IF child.lang # None
    THEN LET pos == position(langs, child.lang[1]) IN
         IF pos = None THEN acc
         ELSE IF acc.best_score # None /\ acc.best_score[1] < pos[1] THEN acc
         ELSE [acc EXCEPT !.best_score = Some(pos[1]), !.best_text = Some(txt)]
    ELSE [acc EXCEPT !.fallback_unlocalized = Some(txt)]

\* comment_step that keeps the first unlocalized comment as the fallback
comment_step_first_fallback(acc, child, langs) ==
    LET txt == trim(child.text) IN
    IF txt = <<>> THEN acc
    ELSE IF child.lang # None
    THEN LET pos == position(langs, child.lang[1]) IN
         IF pos = None THEN acc
         ELSE IF acc.best_score # None /\ acc.best_score[1] <= pos[1] THEN acc
         ELSE [acc EXCEPT !.best_score = Some(pos[1]), !.best_text = Some(txt)]
    ELSE IF acc.fallback_unlocalized # None THEN acc
    ELSE [acc EXCEPT !.fallback_unlocalized = Some(txt)]

\* comment_step that tests the trimmed text and stores the text as written
comment_step_untrimmed(acc, child, langs) ==
    LET txt == trim(child.text) IN
    IF txt = <<>> THEN acc
    ELSE IF child.lang # None
    THEN LET pos == position(langs, child.lang[1]) IN
         IF pos = None THEN acc
         ELSE IF acc.best_score # None /\ acc.best_score[1] <= pos[1] THEN acc
         ELSE [acc EXCEPT !.best_score = Some(pos[1]), !.best_text = Some(child.text)]
    ELSE [acc EXCEPT !.fallback_unlocalized = Some(child.text)]

\* comment_step without the `if txt.is_empty() { continue; }`
comment_step_keep_blank(acc, child, langs) ==
    LET txt == trim(child.text) IN
    IF child.lang # None
    THEN LET pos == position(langs, child.lang[1]) IN
         IF pos = None THEN acc
         ELSE IF acc.best_score # None /\ acc.best_score[1] <= pos[1] THEN acc
         ELSE [acc EXCEPT !.best_score = Some(pos[1]), !.best_text = Some(txt)]
    ELSE [acc EXCEPT !.fallback_unlocalized = Some(txt)]

\* The body of the `for child in ... "comment"` loop: acc holds best_score,
\* best_text and fallback_unlocalized
comment_step(acc, child, langs) ==
    LET txt == trim(child.text) IN
    IF txt = <<>> THEN acc
    ELSE IF child.lang # None
    THEN LET pos == position(langs, child.lang[1]) IN
         IF pos = None THEN acc
         ELSE IF acc.best_score # None /\ acc.best_score[1] <= pos[1] THEN acc
         ELSE [acc EXCEPT !.best_score = Some(pos[1]), !.best_text = Some(txt)]
    ELSE [acc EXCEPT !.fallback_unlocalized = Some(txt)]

RECURSIVE comment_loop(_, _, _, _)
comment_loop(acc, comments, langs, i) ==
    IF i > Len(comments) THEN acc
    ELSE comment_loop(comment_step(acc, comments[i], langs), comments, langs, i + 1)

\* chosen with the operands of `or` exchanged
chosen_fallback_first(mime_node, langs) ==
    LET acc == comment_loop([best_score |-> None, best_text |-> None,
                             fallback_unlocalized |-> None],
                            mime_node.comments, langs, 1)
    IN IF acc.fallback_unlocalized # None THEN acc.fallback_unlocalized ELSE acc.best_text

\* `chosen` of MimeCache::scan: best_text.or(fallback_unlocalized)
chosen(mime_node, langs) ==
    LET acc == comment_loop([best_score |-> None, best_text |-> None,
                             fallback_unlocalized |-> None],
                            mime_node.comments, langs, 1)
    IN IF acc.best_text # None THEN acc.best_text ELSE acc.fallback_unlocalized

\* mime_node_step that forgets the alias key
mime_node_step_no_alias(descs, mime_node, langs, aliases) ==
    IF mime_node.type = None THEN descs
    ELSE LET mime_type == mime_node.type[1]
             desc == chosen(mime_node, langs)
         IN IF desc = None THEN descs ELSE or_insert(descs, mime_type, desc[1])

\* mime_node_step that writes the alias key with HashMap::insert
mime_node_step_alias_overwrite(descs, mime_node, langs, aliases) ==
    IF mime_node.type = None THEN descs
    ELSE LET mime_type == mime_node.type[1]
             desc == chosen(mime_node, langs)
         IN IF desc = None THEN descs
            ELSE LET direct == or_insert(descs, mime_type, desc[1])
                     alias == get(aliases, mime_type)
                 IN IF alias # None THEN insert(direct, alias[1], desc[1]) ELSE direct

\* mime_node_step that writes the key of the type with HashMap::insert
mime_node_step_direct_overwrite(descs, mime_node, langs, aliases) ==
    IF mime_node.type = None THEN descs
    ELSE LET mime_type == mime_node.type[1]
             desc == chosen(mime_node, langs)
         IN IF desc = None THEN descs
            ELSE LET direct == insert(descs, mime_type, desc[1])
                     alias == get(aliases, mime_type)
                 IN IF alias # None THEN or_insert(direct, alias[1], desc[1]) ELSE direct

\* The body of the `for mime_node in doc.descendants()` loop
mime_node_step(descs, mime_node, langs, aliases) ==
    IF mime_node.type = None THEN descs
    ELSE LET mime_type == mime_node.type[1]
             desc == chosen(mime_node, langs)
         IN IF desc = None THEN descs
            ELSE LET direct == or_insert(descs, mime_type, desc[1])
                     alias == get(aliases, mime_type)
                 IN IF alias # None THEN or_insert(direct, alias[1], desc[1]) ELSE direct

\* mime_node_loop that leaves the file at an element without type
RECURSIVE mime_node_loop_stop_at_untyped(_, _, _, _, _)
mime_node_loop_stop_at_untyped(descs, doc, langs, aliases, i) ==
    IF i > Len(doc) \/ doc[i].type = None THEN descs
    ELSE mime_node_loop_stop_at_untyped(mime_node_step(descs, doc[i], langs, aliases),
                                        doc, langs, aliases, i + 1)

RECURSIVE mime_node_loop(_, _, _, _, _)
mime_node_loop(descs, doc, langs, aliases, i) ==
    IF i > Len(doc) THEN descs
    ELSE mime_node_loop(mime_node_step(descs, doc[i], langs, aliases), doc, langs, aliases, i + 1)

\* fs::read_to_string(path): the content of a readable regular file, None
\* for a directory, a missing or an unreadable file
read_to_string(pk, path) ==
    IF \E f \in pk : f.path = path /\ f.body.kind # "unreadable"
    THEN Some((CHOOSE f \in pk : f.path = path).body)
    ELSE None

\* parse that yields the elements read before the error of a document that
\* is not well-formed
parse_lenient(xml) == Some(xml.doc)

\* roxmltree::Document::parse: the mime-type elements of a well-formed
\* document, in document order
parse(xml) == IF xml.kind = "doc" THEN Some(xml.doc) ELSE None

\* entry_step without the test of the extension
entry_step_any_extension(descs, pk, path, langs, aliases) ==
    LET xml == read_to_string(pk, path) IN
    IF xml = None THEN descs
    ELSE LET doc == parse(xml[1]) IN
         IF doc = None THEN descs
         ELSE mime_node_loop(descs, doc[1], langs, aliases, 1)

\* The body of the `for entry in read_dir.flatten()` loop
entry_step(descs, pk, path, langs, aliases) ==
    IF extension(path) # Some("xml") THEN descs
    ELSE LET xml == read_to_string(pk, path) IN
         IF xml = None THEN descs
         ELSE LET doc == parse(xml[1]) IN
              IF doc = None THEN descs
              ELSE mime_node_loop(descs, doc[1], langs, aliases, 1)

RECURSIVE entry_loop(_, _, _, _, _, _, _)
entry_loop(descs, pk, rank, dir, todo, langs, aliases) ==
    IF todo = {} THEN descs
    ELSE LET paths == {f.path : f \in pk}
             e == CHOOSE x \in todo : \A y \in todo :
                     EntryRank(paths, rank, dir \o <<x>>) <= EntryRank(paths, rank, dir \o <<y>>)
         IN entry_loop(entry_step(descs, pk, dir \o <<e>>, langs, aliases),
                       pk, rank, dir, todo \ {e}, langs, aliases)

RECURSIVE dir_loop(_, _, _, _, _, _, _)
dir_loop(descs, pk, rank, dirs, i, langs, aliases) ==
    IF i > Len(dirs) THEN descs
    ELSE dir_loop(entry_loop(descs, pk, rank, dirs[i],
                             read_dir({f.path : f \in pk}, dirs[i]), langs, aliases),
                  pk, rank, dirs, i + 1, langs, aliases)

\* The entries of dir in the order `for entry in read_dir.flatten()` meets
\* them
RECURSIVE entry_order(_, _, _, _)
entry_order(paths, rank, dir, todo) ==
    IF todo = {} THEN << >>
    ELSE LET e == CHOOSE x \in todo : \A y \in todo :
                     EntryRank(paths, rank, dir \o <<x>>) <= EntryRank(paths, rank, dir \o <<y>>)
         IN <<dir \o <<e>>>> \o entry_order(paths, rank, dir, todo \ {e})

\* The entries the two nested loops of MimeCache::scan meet, in order
RECURSIVE dir_order(_, _, _, _)
dir_order(paths, rank, dirs, i) ==
    IF i > Len(dirs) THEN << >>
    ELSE entry_order(paths, rank, dirs[i], read_dir(paths, dirs[i]))
         \o dir_order(paths, rank, dirs, i + 1)

scan_order(e, pk, rank) == dir_order({f.path : f \in pk}, rank, candidate_mime_dirs(e), 1)

\* clear() that keeps the entries
clear_nothing(descs) == descs

\* self.mime_descriptions.clear()
clear(descs) == EmptyMap

\* MimeCache::scan: the map it leaves in mime_descriptions
mime_scan(descs, e, pk, afs, rank) ==
    LET langs == e.LANGS
        aliases == get_mime_aliases(e, afs)
    IN dir_loop(clear(descs), pk, rank, candidate_mime_dirs(e), 1, langs, aliases)

\* lookup that trims its argument
mime_lookup_trimmed(descs, name) == get(descs, trim(name))

\* MimeCache::lookup
mime_lookup(descs, name) == get(descs, name)

----------------------------------------------------------------------------
(* The environments and the filesystems the scans run against *)

PlainEnv ==
    [XDG_DATA_HOME |-> None, HOME |-> Some(P(<<"home", "u">>)),
     XDG_DATA_DIRS |-> None, FLATPAK_ID |-> None, FLATPAK_RUNTIME_DIR |-> None,
     LANGS |-> <<"en", "fr">>]

\* XDG_DATA_HOME=/xdg XDG_DATA_DIRS=/usr/share:/usr/local/share
XdgEnv ==
    [PlainEnv EXCEPT !.XDG_DATA_HOME = Str(P(<<"xdg">>)),
                     !.XDG_DATA_DIRS = Str(<<P(<<"usr", "share">>),
                                             P(<<"usr", "local", "share">>)>>)]

\* A German session
GermanEnv == [PlainEnv EXCEPT !.LANGS = <<"de">>]

\* Inside a Flatpak sandbox, French preferred to English
FlatpakEnv ==
    [PlainEnv EXCEPT !.FLATPAK_ID = Str(<<"launchedit">>),
                     !.FLATPAK_RUNTIME_DIR = Str(P(<<"run", "rt">>)),
                     !.LANGS = <<"fr", "en">>]

\* Sandboxed, with an XDG_DATA_HOME that is not valid Unicode
OddEnv ==
    [PlainEnv EXCEPT !.XDG_DATA_HOME = NotUnicode,
                     !.FLATPAK_ID = Str(<<"launchedit">>)]

\* XDG_DATA_DIRS=/usr/share:/usr/local/share:/usr/share
DupEnv ==
    [PlainEnv EXCEPT !.XDG_DATA_DIRS = Str(<<P(<<"usr", "share">>),
                                             P(<<"usr", "local", "share">>),
                                             P(<<"usr", "share">>)>>)]

IconEnvs == {PlainEnv, XdgEnv, OddEnv}
ThemeEnvs == {PlainEnv, DupEnv}
MimeEnvs == {PlainEnv, GermanEnv, FlatpakEnv}

LocalApps == P(<<"usr", "local", "share", "icons", "cosmic", "scalable", "apps">>)
SysActions == P(<<"usr", "share", "icons", "hicolor", "16x16", "actions">>)
SysStatus == P(<<"usr", "share", "icons", "cosmic", "scalable", "status">>)
SysIconsPixmaps == P(<<"usr", "share", "icons", "pixmaps">>)
SysPixmaps == P(<<"usr", "share", "pixmaps">>)

FileUniverse ==
    { LocalApps \o << <<"foo", "svg">> >>,
      LocalApps \o << <<"foo", "svg", "png">> >>,
      LocalApps \o << <<"foo", "txt">> >>,
      SysActions \o << <<"foo", "svg">> >>,
      SysActions \o << <<"foo", "svg", "xpm">> >>,
      SysActions \o << <<"foo">> >>,
      SysActions \o << <<"sub">>, <<"foo", "svg">> >>,
      SysIconsPixmaps \o << <<"bar", "PNG">> >>,
      SysPixmaps \o << <<"foo", "png">> >>,
      SysStatus \o << <<"foo", "svg">> >> }

\* Copies of foo.png over bases, themes, sizes and pixmaps directories
ThemeFiles ==
    { P(<<"usr", "local", "share", "icons", "hicolor", "16x16", "actions">>) \o << <<"foo", "png">> >>,
      P(<<"usr", "share", "icons", "cosmic", "16x16", "actions">>) \o << <<"foo", "png">> >>,
      P(<<"usr", "share", "icons", "Adwaita", "scalable", "apps">>) \o << <<"foo", "png">> >>,
      P(<<"usr", "share", "icons", "hicolor", "scalable", "apps">>) \o << <<"foo", "png">> >>,
      P(<<"usr", "share", "icons", "hicolor", "512x512", "apps">>) \o << <<"foo", "png">> >>,
      P(<<"usr", "share", "icons", "hicolor", "16x16", "apps">>) \o << <<"foo", "png">> >>,
      P(<<"usr", "share", "icons", "pixmaps">>) \o << <<"foo", "png">> >>,
      P(<<"usr", "share", "pixmaps", "cosmic", "scalable", "apps">>) \o << <<"foo", "png">> >> }

\* The names lookup is called with
LookupNames ==
    {file_name(f) : f \in FileUniverse} \cup {file_stem(f) : f \in FileUniverse}

Ranks(fs) ==
    {r \in [fs -> 1 .. Cardinality(fs)] : \A f, g \in fs : f # g => r[f] # r[g]}

\* MIME types
Markdown == <<"text/markdown">>
XMarkdown == <<"text/x-markdown">>
Plain == <<"text/plain">>
Blank == <<"text/x-blank">>
Late == <<"text/x-late">>

Comment(lang, text) == [lang |-> lang, text |-> text]
MimeType(type, comments) == [type |-> type, comments |-> comments]
Doc(path, doc) == [path |-> path, body |-> [kind |-> "doc", doc |-> doc]]
Unreadable(path, doc) == [path |-> path, body |-> [kind |-> "unreadable", doc |-> doc]]
Broken(path, doc) == [path |-> path, body |-> [kind |-> "malformed", doc |-> doc]]

SysPackages == P(<<"usr", "share", "mime", "packages">>)
LocalPackages == P(<<"usr", "local", "share", "mime", "packages">>)
HostPackages == P(<<"run", "host", "usr", "share", "mime", "packages">>)

PkgUniverse ==
    { \* <comment xml:lang="fr">Texte</comment><comment xml:lang="en"> Markdown text</comment>
      Doc(SysPackages \o << <<"a", "xml">> >>,
          << MimeType(Some(Markdown),
                      << Comment(Some("fr"), <<"Texte">>),
                         Comment(Some("en"), <<" ", "Markdown text">>) >>) >>),
      \* the same type again, English first, in the local directory
      Doc(LocalPackages \o << <<"a", "xml">> >>,
          << MimeType(Some(Markdown),
                      << Comment(Some("en"), <<"Markdown document">>),
                         Comment(Some("fr"), <<"Document">>) >>) >>),
      \* the alias type declared directly, then the canonical one with the
      \* unlocalized comment first
      Doc(SysPackages \o << <<"b", "xml">> >>,
          << MimeType(Some(XMarkdown),
                      << Comment(Some("it"), <<"Vecchio">>),
                         Comment(None, <<"Old markdown">>) >>),
             MimeType(Some(Markdown),
                      << Comment(None, <<"Generic text">>),
                         Comment(Some("fr"), <<"Texte generique">>) >>) >>),
      \* localized first, unlocalized second; only in the host directory
      Doc(HostPackages \o << <<"c", "xml">> >>,
          << MimeType(Some(Markdown),
                      << Comment(Some("en"), <<"Host text">>),
                         Comment(None, <<"Host generic">>) >>) >>),
      \* only a language nobody asks for; an element without type; an element
      \* whose only comment is blank; a described element
      Doc(SysPackages \o << <<"d", "xml">> >>,
          << MimeType(Some(Plain), << Comment(Some("it"), <<"Testo">>) >>),
             MimeType(None, << Comment(None, <<"Untyped">>) >>),
             MimeType(Some(Blank), << Comment(None, <<" ">>) >>),
             MimeType(Some(Late), << Comment(None, <<"Late">>) >>) >>),
      \* blank texts, a repeated language and two unlocalized comments
      Doc(SysPackages \o << <<"e", "xml">> >>,
          << MimeType(Some(Plain),
                      << Comment(Some("en"), <<" ">>),
                         Comment(Some("fr"), <<"Texte brut", " ">>),
                         Comment(Some("fr"), <<"Autre">>),
                         Comment(None, <<"Plain one">>),
                         Comment(None, <<"\t">>),
                         Comment(None, <<"Plain two">>) >>) >>),
      \* a mime-type element, then text that is not well-formed XML
      Broken(SysPackages \o << <<"f", "xml">> >>,
             << MimeType(Some(Plain), << Comment(None, <<"Broken">>) >>) >>),
      \* a file the process has no permission to read
      Unreadable(SysPackages \o << <<"g", "xml">> >>,
                 << MimeType(Some(Plain), << Comment(None, <<"Secret">>) >>) >>),
      \* not an .xml file, and a file below a subdirectory
      Doc(SysPackages \o << <<"h", "txt">> >>,
          << MimeType(Some(Plain), << Comment(None, <<"Wrong extension">>) >>) >>),
      Doc(SysPackages \o << <<"sub", "xml">>, <<"i", "xml">> >>,
          << MimeType(Some(Plain), << Comment(None, <<"Too deep">>) >>) >>),
      \* the canonical type, then the alias type twice
      Doc(LocalPackages \o << <<"j", "xml">> >>,
          << MimeType(Some(Markdown), << Comment(None, <<"Local generic">>) >>),
             MimeType(Some(XMarkdown), << Comment(None, <<"X one">>) >>),
             MimeType(Some(XMarkdown), << Comment(None, <<"X two">>) >>) >>) }

SysAliases == P(<<"usr", "share", "mime", "aliases">>)
LocalAliases == P(<<"usr", "local", "share", "mime", "aliases">>)
AppAliases == P(<<"app", "share", "mime", "aliases">>)

AliasFile(path, lines) == [path |-> path, lines |-> lines, kind |-> "file"]

\* A directory at the place of an alias file
AliasDir(path) == [path |-> path, lines |-> << >>, kind |-> "dir"]

AliasUniverse ==
    { \* the layout shared-mime-info writes: alias first, canonical type second
      AliasFile(SysAliases, << <<"text/x-markdown", " ", "text/markdown">> >>),
      \* the layout of the specification: canonical type first
      AliasFile(SysAliases, << <<"text/markdown", " ", "text/x-markdown">> >>),
      AliasFile(LocalAliases,
                << <<"#", " ", "aliases">>, << >>,
                   <<"text/x-markdown", "\t", " ", "text/markdown">>,
                   <<"text/plain">>,
                   <<"text/md", " ", "text/markdown">> >>),
      AliasFile(AppAliases,
                << <<" ", "text/x-markdown", " ", "text/plain", " ">>,
                   <<"text/x-md", " ", "text/markdown">> >>) }

\* The disks the two caches are constructed on together
CacheEnvs == {PlainEnv, FlatpakEnv}
CacheFiles ==
    { SysActions \o << <<"foo", "svg">> >>,
      LocalApps \o << <<"foo", "svg", "png">> >>,
      SysPixmaps \o << <<"foo", "png">> >> }
CachePkgs ==
    {f \in PkgUniverse :
        f.path \in { SysPackages \o << <<"a", "xml">> >>, LocalPackages \o << <<"a", "xml">> >>,
                     SysPackages \o << <<"f", "xml">> >>, SysPackages \o << <<"g", "xml">> >> }}
CacheAliases ==
    {f \in AliasUniverse :
        \/ f.path = LocalAliases
        \/ f.path = SysAliases /\ f.lines[1][1] = "text/x-markdown"}

\* The names MimeCache::lookup is called with: the types, and a type in
\* another case and with a leading space
MimeNames == {Markdown, XMarkdown, Plain, <<"text/md">>, <<"TEXT/MARKDOWN">>, <<" ", "text/markdown">>}

----------------------------------------------------------------------------
(* Actions *)

\* The struct literal of IconCache::default, before its call of scan
IconNew ==
    /\ files = {}
    /\ by_full_name = EmptyMap
    /\ by_name_no_ext = EmptyMap
    /\ icon_op = "new"
    /\ icon_scans = 0
    /\ icon_ret = None

\* The struct literal of MimeCache::default, before its call of scan
MimeNew ==
    /\ pkgs = {}
    /\ alias_files = {}
    /\ mime_descriptions = EmptyMap
    /\ mime_op = "new"
    /\ mime_cleared = 0
    /\ mime_order = << >>
    /\ mime_ret = None

\* IconCache::scan, called by Default::default and by any later refresh
IconScanCall ==
    /\ icon_ret = None /\ mime_ret = None
    /\ icon_scans < MaxScans
    /\ LET roots == ListableRoots(env, files) IN
       \E rank \in Ranks(files) :
         LET c == scan([full |-> by_full_name, stem |-> by_name_no_ext], roots, files, rank)
         IN /\ by_full_name' = c.full
            /\ by_name_no_ext' = c.stem
    /\ icon_op' = "scan"
    /\ icon_scans' = icon_scans + 1
    /\ UNCHANGED <<env, files, icon_ret, mime_vars>>

\* IconCache::scan called on a cache of its own
IconScan == IconScanCall /\ UNCHANGED <<app, run>>

\* The environment creates an icon file
IconAddFile ==
    /\ icon_ret = None
    /\ Cardinality(files) < MaxFiles
    /\ \E p \in FileUniverse \ files : files' = files \cup {p}
    /\ icon_op' = "fs"
    /\ UNCHANGED <<env, app, run, by_full_name, by_name_no_ext, icon_scans, icon_ret, mime_vars>>

\* The environment removes an icon file
IconRemoveFile ==
    /\ icon_ret = None
    /\ \E p \in files : files' = files \ {p}
    /\ icon_op' = "fs"
    /\ UNCHANGED <<env, app, run, by_full_name, by_name_no_ext, icon_scans, icon_ret, mime_vars>>

\* IconCache::lookup(name) called on a constructed cache.  The call is
\* synchronous: nothing else runs until its caller has the result.
IconLookup ==
    /\ icon_ret = None /\ mime_ret = None
    /\ icon_scans > 0
    /\ \E name \in LookupNames :
         icon_ret' = Some([name |-> name, ret |-> lookup(by_full_name, by_name_no_ext, name)])
    /\ UNCHANGED <<env, app, run, files, by_full_name, by_name_no_ext, icon_op, icon_scans, mime_vars>>

\* The caller of lookup takes the result
IconLookupReturn ==
    /\ icon_ret # None
    /\ icon_ret' = None
    /\ UNCHANGED <<env, app, run, files, by_full_name, by_name_no_ext, icon_op, icon_scans, mime_vars>>

\* MimeCache::scan, called by Default::default and by any later refresh
MimeScanCall ==
    /\ icon_ret = None /\ mime_ret = None
    /\ get_mime_aliases_returns(env, alias_files)
    /\ \E rank \in Ranks({f.path : f \in pkgs}) :
         /\ mime_descriptions' = mime_scan(mime_descriptions, env, pkgs, alias_files, rank)
         /\ mime_order' = scan_order(env, pkgs, rank)
    /\ mime_op' = "scan"
    /\ mime_cleared' = Cardinality(DOMAIN mime_descriptions)
    /\ UNCHANGED <<env, icon_vars, pkgs, alias_files, mime_ret>>

\* MimeCache::scan called on a cache of its own
MimeScan == MimeScanCall /\ UNCHANGED <<app, run>>

\* The environment creates an entry below a package directory
MimeAddPkg ==
    /\ Cardinality(pkgs) < MaxPkgFiles
    /\ \E f \in PkgUniverse :
         /\ \A g \in pkgs : g.path # f.path
         /\ pkgs' = pkgs \cup {f}
    /\ mime_op' = "fs"
    /\ mime_cleared' = 0
    /\ mime_order' = << >>
    /\ UNCHANGED <<env, app, run, icon_vars, alias_files, mime_descriptions, mime_ret>>

\* The environment removes an entry below a package directory
MimeRemovePkg ==
    /\ \E f \in pkgs : pkgs' = pkgs \ {f}
    /\ mime_op' = "fs"
    /\ mime_cleared' = 0
    /\ mime_order' = << >>
    /\ UNCHANGED <<env, app, run, icon_vars, alias_files, mime_descriptions, mime_ret>>

\* The environment creates an alias file
MimeAddAlias ==
    /\ Cardinality(alias_files) < MaxAliasFiles
    /\ \E f \in AliasUniverse :
         /\ \A g \in alias_files : g.path # f.path
         /\ alias_files' = alias_files \cup {f}
    /\ mime_op' = "fs"
    /\ mime_cleared' = 0
    /\ mime_order' = << >>
    /\ UNCHANGED <<env, app, run, icon_vars, pkgs, mime_descriptions, mime_ret>>

\* The environment removes an alias file
MimeRemoveAlias ==
    /\ \E f \in alias_files : alias_files' = alias_files \ {f}
    /\ mime_op' = "fs"
    /\ mime_cleared' = 0
    /\ mime_order' = << >>
    /\ UNCHANGED <<env, app, run, icon_vars, pkgs, mime_descriptions, mime_ret>>

\* MimeCache::lookup(name) called on a constructed cache
MimeLookup ==
    /\ icon_ret = None /\ mime_ret = None
    /\ mime_op = "scan"
    /\ \E name \in MimeNames :
         mime_ret' = Some([name |-> name, ret |-> mime_lookup(mime_descriptions, name)])
    /\ UNCHANGED <<env, app, run, icon_vars, pkgs, alias_files, mime_descriptions, mime_op,
                   mime_cleared, mime_order>>

\* The caller of lookup takes the result
MimeLookupReturn ==
    /\ mime_ret # None
    /\ mime_ret' = None
    /\ UNCHANGED <<env, app, run, icon_vars, pkgs, alias_files, mime_descriptions, mime_op,
                   mime_cleared, mime_order>>

----------------------------------------------------------------------------
(* AppModel: the owner of the two caches (src/src/app.rs) *)

(* Of AppModel the model keeps the fields that loading, editing and saving *)
(* an entry use: current_entry (its Icon, MimeType and Type keys and the   *)
(* path it was read from), current_entry_path, current_entry_error,        *)
(* current_entry_changed, mime_table (the rows in table order),            *)
(* new_mimetype, context_page and show_context.  The value of the MimeType *)
(* key is the text stored in the entry, a sequence of pieces in which ';'  *)
(* is a piece of its own: split gives its items, join builds it.           *)
(* desktop_files is the disk: the desktop files by path, each with the     *)
(* entry it decodes to, or None when it cannot be decoded.  pc is where    *)
(* the run stands, handled counts the update and view calls made, calls is *)
(* the log of the cache functions called so far, each with the application *)
(* function that made the call, wrote is the file the last message wrote   *)
(* and last is the last message handled.                                   *)

\* No application: the cache is exercised on its own
NoApp == [pc |-> "none"]

\* The path of an entry that was not read from a file (DesktopEntry::from_appid)
NoPath == << >>

\* A desktop entry: the keys Icon, MimeType and Type of its main group, each
\* absent or holding a string, and the path the entry was read from
Entry(icon, mime) == [Icon |-> icon, MimeType |-> mime, Type |-> None, path |-> NoPath]

\* str::split(';'): the items between the separators, empty ones included
RECURSIVE split(_)
split(s) ==
    IF \E i \in DOMAIN s : s[i] = ";"
    THEN LET i == CHOOSE k \in DOMAIN s : s[k] = ";" /\ \A j \in 1 .. (k - 1) : s[j] # ";"
         IN << SubSeq(s, 1, i - 1) >> \o split(SubSeq(s, i + 1, Len(s)))
    ELSE << s >>

\* [S]::join(";")
RECURSIVE join(_)
join(items) ==
    IF items = << >> THEN << >>
    ELSE IF Len(items) = 1 THEN items[1]
    ELSE items[1] \o <<";">> \o join(Tail(items))

\* DesktopEntry::mime_type: the value of MimeType split at ';'
entry_mime_type(entry) == IF entry.MimeType = None THEN None ELSE Some(split(entry.MimeType[1]))

\* The desktop files on disk at start: one with an icon and a MimeType list
\* that ends with ';', one without either key, one that cannot be decoded
Desktops ==
    { [path |-> P(<<"home", "u", "a">>),
       body |-> Some(Entry(Some(<<"foo">>),
                           Some(join(<<Markdown, <<"text/md">>, << >> >>))))],
      [path |-> P(<<"home", "u", "b">>), body |-> Some(Entry(None, None))],
      [path |-> P(<<"home", "u", "c">>), body |-> None] }

\* The paths the application is asked to load: those, and a missing one
DesktopPaths == {d.path : d \in Desktops} \cup {P(<<"home", "u", "missing">>)}

\* The texts typed into the icon field and into the new-mimetype field
IconTexts == {<<"foo", "svg">>, <<"nothing">>}
MimeTexts == {<<" ", "text/markdown", " ">>, <<"text/x-new">>, << >>}

Call(fn, by) == [fn |-> fn, by |-> by]

\* ContextPage
About == [page |-> "About", e |-> << >>]
IOError(e) == [page |-> "IOError", e |-> e]

\* The struct literal of AppModel in init, before the caches are built, on
\* a disk with the desktop files `disk`
AppOn(args, disk) ==
    [pc |-> "init", args |-> args, desktop_files |-> disk,
     context_page |-> About, show_context |-> FALSE,
     mime_table |-> << >>,
     current_entry |-> None, current_entry_path |-> None,
     current_entry_error |-> None, current_entry_changed |-> FALSE,
     new_mimetype |-> << >>,
     wrote |-> None, last |-> None, handled |-> 0, calls |-> << >>]
AppNew(args) == AppOn(args, Desktops)

\* MimeItem
MimeItem(name, description) == [name |-> name, description |-> description]

\* The description of a table row: `lookup(name).cloned().unwrap_or_default()`
description_of(name) ==
    IF mime_lookup(mime_descriptions, name) # None
    THEN mime_lookup(mime_descriptions, name)[1] ELSE << >>

\* clear_all without the reset of current_entry_error
clear_all_keep_error(a) ==
    [a EXCEPT !.current_entry = None, !.current_entry_path = None,
              !.mime_table = << >>, !.new_mimetype = << >>]

\* AppModel::clear_all
clear_all(a) ==
    [a EXCEPT !.current_entry = None, !.current_entry_path = None,
              !.current_entry_error = None, !.mime_table = << >>,
              !.new_mimetype = << >>]

\* The `for item in mimetypes` loop of load_entry_from_path: one
\* MimeCache::lookup for every item that is not empty
RECURSIVE item_lookups(_, _, _)
item_lookups(items, i, by) ==
    IF i > Len(items) THEN << >>
    ELSE (IF items[i] # << >> THEN << Call("MimeCache::lookup", by) >> ELSE << >>)
         \o item_lookups(items, i + 1, by)

\* ... and the rows it inserts into mime_table
RECURSIVE item_rows(_, _)
item_rows(items, i) ==
    IF i > Len(items) THEN << >>
    ELSE (IF items[i] # << >> THEN << MimeItem(items[i], description_of(items[i])) >>
          ELSE << >>)
         \o item_rows(items, i + 1)

\* Path::exists, Path::is_file on the desktop files
exists(a, path) == \E d \in a.desktop_files : d.path = path

\* AppModel::load_entry_from_path
load_entry_from_path(a, path, by) ==
    LET c == clear_all(a) IN
    IF ~exists(c, path)
    THEN [c EXCEPT !.current_entry_error = Some("FileNotFound")]
    ELSE LET from_path == (CHOOSE d \in c.desktop_files : d.path = path).body IN
         IF from_path = None
         THEN [c EXCEPT !.current_entry_error = Some("Decode")]
         ELSE LET entry == [from_path[1] EXCEPT !.path = path] IN
              [c EXCEPT !.calls = @ \o (IF entry_mime_type(entry) # None
                                        THEN item_lookups(entry_mime_type(entry)[1], 1, by)
                                        ELSE << >>),
                        !.mime_table = IF entry_mime_type(entry) # None
                                       THEN item_rows(entry_mime_type(entry)[1], 1) ELSE << >>,
                        !.current_entry = Some(entry),
                        !.current_entry_path = Some(path)]

\* AppModel::load_entry_from_args
load_entry_from_args(a, by) ==
    LET c == [a EXCEPT !.current_entry = None, !.current_entry_error = None] IN
    IF c.args = None THEN [c EXCEPT !.current_entry_error = Some("MissingArgument")]
    ELSE IF ~exists(c, c.args[1])
    THEN [c EXCEPT !.current_entry_error = Some("FileNotFound")]
    ELSE load_entry_from_path(c, c.args[1], by)

\* AppModel::set_text, with AppModel::changed
set_text(a, key, text) ==
    IF a.current_entry # None
    THEN [a EXCEPT !.current_entry = Some([a.current_entry[1] EXCEPT ![key] = Some(text)]),
                   !.current_entry_changed = TRUE]
    ELSE a

\* AppModel::set_list: the items joined with ';'
set_list(a, key, items) == set_text(a, key, join(items))

\* AppModel::create_mimetype
create_mimetype(a, mimetype, by) ==
    IF a.current_entry = None THEN a
    ELSE LET existing == entry_mime_type(a.current_entry[1])
             mimes == <<mimetype>>
                      \o (IF existing # None
                          THEN SelectSeq(existing[1], LAMBDA s : s # << >>)
                          ELSE << >>)
         IN [set_list(a, "MimeType", mimes) EXCEPT
                !.calls = Append(@, Call("MimeCache::lookup", by)),
                !.mime_table = Append(@, MimeItem(mimetype, description_of(mimetype)))]

\* The RemoveMimetype arm of update: the row at position p (from 0) leaves
\* the table and the names of the rows left become the MimeType list
remove_mimetype(a, pos) ==
    IF pos # None /\ pos[1] < Len(a.mime_table)
    THEN LET rows == SubSeq(a.mime_table, 1, pos[1])
                     \o SubSeq(a.mime_table, pos[1] + 2, Len(a.mime_table))
         IN set_list([a EXCEPT !.mime_table = rows], "MimeType",
                     [i \in DOMAIN rows |-> rows[i].name])
    ELSE a

\* The ToggleContextPage arm of update
toggle_context_page(a, context_page) ==
    IF a.context_page = context_page
    THEN [a EXCEPT !.show_context = ~a.show_context]
    ELSE [a EXCEPT !.context_page = context_page, !.show_context = TRUE]

\* What AppModel::save_desktop_entry can come to: the file is written and
\* made executable; fs::write fails; the file is written and reading or
\* setting its permissions fails
SaveOutcomes == {"ok", "write", "permissions"}

\* The SaveFinished arm of update, save_desktop_entry ending as `outcome`
\* tells and an error reading `e`
save_finished(a, res, outcome, e) ==
    IF res # None /\ a.current_entry # None
    THEN LET written == IF outcome = "write" THEN a
                        ELSE [a EXCEPT !.desktop_files =
                                 {d \in @ : d.path # res[1]}
                                 \cup {[path |-> res[1],
                                         body |-> Some([a.current_entry[1] EXCEPT
                                                           !.path = NoPath])]},
                               !.wrote = res]
         IN IF outcome # "ok" THEN toggle_context_page(written, IOError(e))
            ELSE [written EXCEPT !.current_entry_changed = FALSE,
                                 !.current_entry_error = None,
                                 !.current_entry_path = res]
    ELSE a

\* The Save arm of update.  Its call of update(SaveAs) starts the task that
\* asks for a file name and changes nothing.
save(a, outcome, e) ==
    IF a.current_entry_changed /\ a.current_entry # None
    THEN (IF a.current_entry_path = None THEN a
          ELSE IF exists(a, a.current_entry[1].path)
          THEN save_finished(a, Some(a.current_entry[1].path), outcome, e)
          ELSE a)
    ELSE a

\* The texts of the I/O errors
ErrorTexts == {<<"Permission denied (os error 13)">>, <<"No space left on device (os error 28)">>}

\* The messages AppModel::update is called with.  Other stands for the arms
\* that change none of the modelled fields and call no cache function
\* (SaveAs and OpenPath, which start the task whose end is SaveFinished and
\* OpenFileFinished, Key, SetBoolEntry, MimeItemSelect, ToggleEdit, ...).
Messages ==
    {[m |-> "OpenFileFinished", path |-> Some(p), kind |-> "DesktopFile"] : p \in DesktopPaths}
    \cup {[m |-> "OpenFileFinished", path |-> None, kind |-> "DesktopFile"]}
    \cup {[m |-> "OpenFileFinished", path |-> Some(P(<<"usr", "bin", "x">>)), kind |-> "Executable"]}
    \cup {[m |-> "SetTextEntry", key |-> "Icon", text |-> t] : t \in IconTexts}
    \cup {[m |-> "EditNewMimetype", string |-> t] : t \in MimeTexts}
    \cup {[m |-> "CreateMimetype"], [m |-> "CreateEntry"],
          [m |-> "SaveFinished", res |-> Some(P(<<"home", "u", "p">>)), outcome |-> "ok",
           e |-> << >>],
          [m |-> "Other"]}

\* update that rebuilds the icon cache whenever a desktop file is opened:
\* the log entry of that call
rescan_on_open(msg) ==
    IF msg.m = "OpenFileFinished" /\ msg.path # None /\ msg.kind = "DesktopFile"
    THEN << Call("IconCache::scan", "update") >>
    ELSE << >>

\* The cache rebuilds the arms of AppModel::update ask for: none
rescan(msg) == << >>

\* AppModel::update, on the modelled fields
update(a, msg) ==
    IF msg.m = "OpenFileFinished"
    THEN (IF msg.path # None /\ msg.kind = "DesktopFile"
          THEN load_entry_from_path(a, msg.path[1], "update")
          ELSE a)
    ELSE IF msg.m = "SetTextEntry" THEN set_text(a, msg.key, msg.text)
    ELSE IF msg.m = "RemoveMimetype" THEN remove_mimetype(a, msg.pos)
    ELSE IF msg.m = "EditNewMimetype" THEN [a EXCEPT !.new_mimetype = trim(msg.string)]
    ELSE IF msg.m = "CreateMimetype"
    THEN create_mimetype([a EXCEPT !.new_mimetype = << >>], a.new_mimetype, "update")
    ELSE IF msg.m = "CreateEntry"
    THEN set_text([clear_all(a) EXCEPT !.current_entry = Some(Entry(None, None))],
                  "Type", <<"Application">>)
    ELSE IF msg.m = "SaveFinished" THEN save_finished(a, msg.res, msg.outcome, msg.e)
    ELSE IF msg.m = "Save" THEN save(a, msg.outcome, msg.e)
    ELSE IF msg.m = "ToggleContextPage" THEN toggle_context_page(a, msg.context_page)
    ELSE a

\* AppModel::get_icon_button, called by the entry views: the lookup it makes
get_icon_button(a) ==
    IF a.current_entry # None /\ a.current_entry[1].Icon # None
    THEN << Call("IconCache::lookup", "view") >>
    ELSE << >>

\* AppModel::view: the entry views show when there is an entry and no error
\* other than MissingArgument
view(a) ==
    IF a.current_entry # None /\ a.current_entry_error \in {None, Some("MissingArgument")}
    THEN [a EXCEPT !.calls = @ \o get_icon_button(a)]
    ELSE a

\* The position the context menu of a table row puts into its
\* "Remove <name>" action: that of the first item of mime_type() equal to
\* the name of the row, from 0
item_context(a, row) ==
    IF entry_mime_type(a.current_entry[1]) = None THEN None
    ELSE LET pos == position(entry_mime_type(a.current_entry[1])[1], a.mime_table[row].name)
         IN IF pos = None THEN None ELSE Some(pos[1] - 1)

\* init: `mime_descriptions: MimeCache::default()`
AppInitMimeCache ==
    /\ app.pc = "init"
    /\ MimeScanCall
    /\ app' = [app EXCEPT !.pc = "mime_descriptions",
                          !.calls = Append(@, Call("MimeCache::scan", "init"))]
    /\ UNCHANGED run

\* init: `icon_cache: IconCache::default()`
AppInitIconCache ==
    /\ app.pc = "mime_descriptions"
    /\ IconScanCall
    /\ app' = [app EXCEPT !.pc = "icon_cache",
                          !.calls = Append(@, Call("IconCache::scan", "init"))]
    /\ UNCHANGED run

\* init: `app.load_entry_from_args(); app.create_nav_bar();` and the return
AppInitLoad ==
    /\ app.pc = "icon_cache"
    /\ app' = [load_entry_from_args(app, "init") EXCEPT !.pc = "running"]
    /\ UNCHANGED <<env, run, icon_vars, mime_vars>>

\* The runtime hands a message to AppModel::update
AppUpdate ==
    /\ app.pc = "running"
    /\ app.handled < MaxMessages
    /\ \E msg \in Messages :
         /\ app' = [update([app EXCEPT !.wrote = None], msg) EXCEPT
                       !.handled = @ + 1, !.last = Some(msg), !.calls = @ \o rescan(msg)]
         /\ IF rescan(msg) # << >> THEN IconScanCall ELSE UNCHANGED icon_vars
    /\ UNCHANGED <<env, run, mime_vars>>

\* The texts typed into the new-mimetype field of an editing session
EditTexts == {<<"text/x-new">>, <<"text/a", ";", "text/b">>}

\* The ways a save ends in an editing session
EditSaves ==
    {[outcome |-> "ok", e |-> << >>]}
    \cup {[outcome |-> "write", e |-> e] : e \in ErrorTexts}
    \cup {[outcome |-> "permissions", e |-> <<"Permission denied (os error 13)">>]}

\* The messages of an editing session in state a: what the file dialogs
\* come back with, and what the widgets that view shows in that state send
EditMessages(a) ==
    {[m |-> "OpenFileFinished", path |-> Some(p), kind |-> "DesktopFile"] :
        p \in {P(<<"home", "u", "a">>), P(<<"home", "u", "c">>), P(<<"home", "u", "missing">>)}}
    \cup {[m |-> "CreateEntry"], [m |-> "ToggleContextPage", context_page |-> About]}
    \cup {[m |-> "Save", outcome |-> o.outcome, e |-> o.e] : o \in EditSaves}
    \cup (IF a.show_context
          THEN {[m |-> "ToggleContextPage", context_page |-> a.context_page]} ELSE {})
    \cup (IF a.current_entry # None
          THEN {[m |-> "SetTextEntry", key |-> "Icon", text |-> <<"foo", "svg">>]}
               \cup {[m |-> "EditNewMimetype", string |-> t] : t \in EditTexts}
               \cup {[m |-> "SaveFinished", res |-> Some(P(<<"home", "u", "p">>)),
                       outcome |-> o.outcome, e |-> o.e] : o \in EditSaves}
               \cup {[m |-> "SaveFinished", res |-> None, outcome |-> "ok", e |-> << >>]}
               \cup {[m |-> "RemoveMimetype", pos |-> item_context(a, row)] :
                        row \in DOMAIN a.mime_table}
               \cup (IF a.new_mimetype # << >> THEN {[m |-> "CreateMimetype"]} ELSE {})
          ELSE {})

\* The runtime hands a message of an editing session to AppModel::update
EditUpdate ==
    /\ app.pc = "running"
    /\ app.handled < MaxEdits
    /\ \E msg \in EditMessages(app) :
         app' = [update([app EXCEPT !.wrote = None], msg) EXCEPT
                    !.handled = @ + 1, !.last = Some(msg)]
    /\ UNCHANGED <<env, run, icon_vars, mime_vars>>

\* The runtime calls AppModel::view
AppView ==
    /\ app.pc = "running"
    /\ app.handled < MaxMessages
    /\ app' = [view(app) EXCEPT !.handled = @ + 1]
    /\ UNCHANGED <<env, run, icon_vars, mime_vars>>

----------------------------------------------------------------------------
(* The scans, loop iteration by loop iteration *)

\* No scan is running
\* `todo` is the list a loop of the scan goes through and `i` its place in it
NoRun == [who |-> "none", pc |-> "none", todo |-> << >>, i |-> 0, aliases |-> EmptyMap,
          item |-> None]

\* IconCache::scan is called: `let base_dirs = Self::icon_search_dirs()`;
\* of the directories its loops name, scan_dir returns at once on those
\* that cannot be listed
IconRunStart ==
    /\ run = NoRun /\ icon_ret = None /\ mime_ret = None
    /\ icon_op = "new"
    /\ run' = [NoRun EXCEPT !.who = "IconCache::scan", !.pc = "roots",
                           !.todo = ListableRoots(env, files), !.i = 1]
    /\ UNCHANGED <<env, app, icon_vars, mime_vars>>

\* The loops of IconCache::scan go to their next directory
IconRunRootAt ==
    /\ run.who = "IconCache::scan"
    /\ run.i <= Len(run.todo)
    /\ run' = [run EXCEPT !.i = @ + 1]

\* One `self.scan_dir(&dir)` of the loops of scan that finds a directory,
\* with the walk below it
IconRunRoot ==
    /\ IconRunRootAt
    /\ \E rank \in Ranks(files) :
         LET c == scan_dir([full |-> by_full_name, stem |-> by_name_no_ext],
                           files, rank, run.todo[run.i])
         IN /\ by_full_name' = c.full
            /\ by_name_no_ext' = c.stem
    /\ UNCHANGED <<env, app, files, icon_op, icon_scans, icon_ret, mime_vars>>

\* The loops of IconCache::scan are over: it returns
IconRunReturn ==
    /\ run.who = "IconCache::scan"
    /\ run.i > Len(run.todo)
    /\ icon_op' = "scan"
    /\ icon_scans' = icon_scans + 1
    /\ run' = NoRun
    /\ UNCHANGED <<env, app, files, by_full_name, by_name_no_ext, icon_ret, mime_vars>>

\* MimeCache::scan is called: clear(), then get_mime_aliases builds `paths`
MimeRunStart ==
    /\ run = NoRun /\ icon_ret = None /\ mime_ret = None
    /\ mime_op = "new"
    /\ mime_descriptions' = clear(mime_descriptions)
    /\ mime_cleared' = Cardinality(DOMAIN mime_descriptions)
    /\ mime_order' = << >>
    /\ run' = [NoRun EXCEPT !.who = "MimeCache::scan", !.pc = "paths",
                           !.todo = alias_paths(env), !.i = 1]
    /\ UNCHANGED <<env, app, icon_vars, pkgs, alias_files, mime_op, mime_ret>>

\* One iteration of `for path in paths`: a path that cannot be opened is
\* passed, a file is read to its end, and on a directory the `for line`
\* loop is entered
MimeRunPath ==
    /\ run.who = "MimeCache::scan" /\ run.pc = "paths"
    /\ run.i <= Len(run.todo)
    /\ LET path == run.todo[run.i]
           file == open_alias(alias_files, path)
       IN run' = IF is_dir(alias_files, path)
                 THEN [run EXCEPT !.pc = "lines"]
                 ELSE [run EXCEPT !.i = @ + 1,
                                  !.aliases = IF file # None
                                              THEN alias_lines(@, file[1], 1) ELSE @]
    /\ UNCHANGED <<env, app, icon_vars, mime_vars>>

\* `for line in reader.lines().flatten()` on a directory: the read fails,
\* lines() yields the error, flatten() drops it and asks for the next item
MimeRunLine ==
    /\ run.who = "MimeCache::scan" /\ run.pc = "lines"
    /\ run' = [run EXCEPT !.item = Some("Err")]
    /\ UNCHANGED <<env, app, icon_vars, mime_vars>>

\* get_mime_aliases returns its table
MimeRunAliases ==
    /\ run.who = "MimeCache::scan" /\ run.pc = "paths"
    /\ run.i > Len(run.todo)
    /\ run' = [run EXCEPT !.pc = "dirs", !.todo = candidate_mime_dirs(env), !.i = 1]
    /\ UNCHANGED <<env, app, icon_vars, mime_vars>>

\* The loop of MimeCache::scan goes to its next directory
MimeRunDirAt ==
    /\ run.who = "MimeCache::scan" /\ run.pc = "dirs"
    /\ run.i <= Len(run.todo)
    /\ run' = [run EXCEPT !.i = @ + 1]

\* One iteration of `for dir in Self::candidate_mime_dirs()`
MimeRunDir ==
    /\ MimeRunDirAt
    /\ LET dir == run.todo[run.i]
           paths == {f.path : f \in pkgs}
       IN \E rank \in Ranks(paths) :
            /\ mime_descriptions' = entry_loop(mime_descriptions, pkgs, rank, dir,
                                               read_dir(paths, dir), env.LANGS, run.aliases)
            /\ mime_order' = mime_order \o entry_order(paths, rank, dir, read_dir(paths, dir))
    /\ UNCHANGED <<env, app, icon_vars, pkgs, alias_files, mime_op, mime_cleared, mime_ret>>

\* The loops of MimeCache::scan are over: it returns
MimeRunReturn ==
    /\ run.who = "MimeCache::scan" /\ run.pc = "dirs"
    /\ run.i > Len(run.todo)
    /\ mime_op' = "scan"
    /\ run' = NoRun
    /\ UNCHANGED <<env, app, icon_vars, pkgs, alias_files, mime_descriptions, mime_cleared,
                   mime_order, mime_ret>>

\* The icon cache and its filesystem
Init == env \in IconEnvs /\ IconNew /\ MimeNew /\ app = NoApp /\ run = NoRun
Next == IconScan \/ IconAddFile \/ IconRemoveFile
Spec == Init /\ [][Next]_vars

\* The icon cache with its lookups
NextLookup == Next \/ IconLookup \/ IconLookupReturn
SpecLookup == Init /\ [][NextLookup]_vars

\* The two caches, constructed on a disk that stays as it is, and their
\* lookups
InitCaches ==
    /\ env \in CacheEnvs
    /\ files \in {S \in SUBSET CacheFiles : Cardinality(S) <= MaxFiles}
    /\ by_full_name = EmptyMap
    /\ by_name_no_ext = EmptyMap
    /\ icon_op = "new"
    /\ icon_scans = 0
    /\ icon_ret = None
    /\ pkgs \in {S \in SUBSET CachePkgs : Cardinality(S) <= MaxPkgFiles}
    /\ alias_files \in {S \in SUBSET CacheAliases : Cardinality(S) <= MaxAliasFiles}
    /\ mime_descriptions = EmptyMap
    /\ mime_op = "new"
    /\ mime_cleared = 0
    /\ mime_order = << >>
    /\ mime_ret = None
    /\ app = NoApp /\ run = NoRun
NextCaches ==
    \/ IconScan \/ IconLookup \/ IconLookupReturn
    \/ MimeScan \/ MimeLookup \/ MimeLookupReturn
SpecCaches == InitCaches /\ [][NextCaches]_vars

\* The mime cache and its filesystem
InitMime == env \in MimeEnvs /\ IconNew /\ MimeNew /\ app = NoApp /\ run = NoRun
NextMime == MimeScan \/ MimeAddPkg \/ MimeRemovePkg \/ MimeAddAlias \/ MimeRemoveAlias
SpecMime == InitMime /\ [][NextMime]_vars

\* The environment creates one of the themed copies
ThemeAddFile ==
    /\ icon_ret = None
    /\ Cardinality(files) < MaxFiles
    /\ \E p \in ThemeFiles \ files : files' = files \cup {p}
    /\ icon_op' = "fs"
    /\ UNCHANGED <<env, app, run, by_full_name, by_name_no_ext, icon_scans, icon_ret, mime_vars>>

\* The icon cache and a filesystem of themed copies of one filename
InitThemes == env \in ThemeEnvs /\ IconNew /\ MimeNew /\ app = NoApp /\ run = NoRun
NextThemes == IconScan \/ ThemeAddFile \/ IconRemoveFile
SpecThemes == InitThemes /\ [][NextThemes]_vars

\* The two caches scanned again and again on a disk that stays as it is and
\* on which the order of enumeration matters: icon files of one stem in one
\* directory, package files of one directory that describe the same type
RescanFiles ==
    { SysActions \o << <<"foo", "svg">> >>,
      SysActions \o << <<"foo", "png">> >>,
      LocalApps \o << <<"foo", "svg">> >>,
      SysPixmaps \o << <<"foo", "png">> >> }
RescanPkgs ==
    {f \in PkgUniverse :
        f.path \in { SysPackages \o << <<"a", "xml">> >>, SysPackages \o << <<"b", "xml">> >>,
                     SysPackages \o << <<"e", "xml">> >>, LocalPackages \o << <<"j", "xml">> >> }}
\* An alias file with two lines for one key and a chain of two aliases
ChainAliases ==
    AliasFile(LocalAliases,
              << <<"text/x-old", " ", "text/plain">>,
                 <<"text/x-markdown", " ", "text/plain">>,
                 <<"text/markdown", " ", "text/x-markdown">> >>)
RescanAliases == CacheAliases \cup {ChainAliases}
InitRescan ==
    /\ env \in CacheEnvs
    /\ files \in {S \in SUBSET RescanFiles : Cardinality(S) <= MaxFiles}
    /\ by_full_name = EmptyMap
    /\ by_name_no_ext = EmptyMap
    /\ icon_op = "new"
    /\ icon_scans = 0
    /\ icon_ret = None
    /\ pkgs \in {S \in SUBSET RescanPkgs : Cardinality(S) <= MaxPkgFiles}
    /\ alias_files \in {S \in SUBSET RescanAliases :
                            /\ Cardinality(S) <= MaxAliasFiles
                            /\ \A f, g \in S : f.path = g.path => f = g}
    /\ mime_descriptions = EmptyMap
    /\ mime_op = "new"
    /\ mime_cleared = 0
    /\ mime_order = << >>
    /\ mime_ret = None
    /\ app = NoApp /\ run = NoRun
NextRescan == IconScan \/ MimeScan
SpecRescan == InitRescan /\ [][NextRescan]_vars

\* An editing session: the application after init, its caches built on a
\* disk with one described type and no icon, started without argument or
\* with the path of a desktop file
EditPkgs == {f \in PkgUniverse : f.path = SysPackages \o << <<"a", "xml">> >>}
InitEdit ==
    /\ env = PlainEnv
    /\ files = {}
    /\ by_full_name = EmptyMap
    /\ by_name_no_ext = EmptyMap
    /\ icon_op = "scan"
    /\ icon_scans = 1
    /\ icon_ret = None
    /\ pkgs = EditPkgs
    /\ alias_files = {}
    /\ \E rank \in Ranks({f.path : f \in pkgs}) :
          /\ mime_descriptions = mime_scan(EmptyMap, env, pkgs, alias_files, rank)
          /\ mime_order = scan_order(env, pkgs, rank)
    /\ mime_op = "scan"
    /\ mime_cleared = 0
    /\ mime_ret = None
    /\ \E args \in {None, Some(P(<<"home", "u", "a">>))} :
          app = [load_entry_from_args(
                    [AppNew(args) EXCEPT !.calls = << Call("MimeCache::scan", "init"),
                                                     Call("IconCache::scan", "init") >>],
                    "init")
                 EXCEPT !.pc = "running"]
    /\ run = NoRun
NextEdit == EditUpdate
SpecEdit == InitEdit /\ [][NextEdit]_vars

\* The two caches built step by step on a disk that stays as it is; the
\* code runs on: a step that can be taken is taken
StepPkgs ==
    {f \in PkgUniverse :
        f.path \in { SysPackages \o << <<"a", "xml">> >>, LocalPackages \o << <<"a", "xml">> >> }}
StepAliases == CacheAliases \cup {AliasDir(SysAliases)}
InitSteps ==
    /\ env \in CacheEnvs
    /\ files \in {S \in SUBSET CacheFiles : Cardinality(S) <= MaxFiles}
    /\ by_full_name = EmptyMap
    /\ by_name_no_ext = EmptyMap
    /\ icon_op = "new"
    /\ icon_scans = 0
    /\ icon_ret = None
    /\ pkgs \in {S \in SUBSET StepPkgs : Cardinality(S) <= MaxPkgFiles}
    /\ alias_files \in {S \in SUBSET StepAliases :
                            /\ Cardinality(S) <= MaxAliasFiles
                            /\ \A f, g \in S : f.path = g.path => f = g}
    /\ mime_descriptions = EmptyMap
    /\ mime_op = "new"
    /\ mime_cleared = 0
    /\ mime_order = << >>
    /\ mime_ret = None
    /\ app = NoApp /\ run = NoRun
NextSteps ==
    \/ IconRunStart \/ IconRunRoot \/ IconRunReturn
    \/ MimeRunStart \/ MimeRunPath \/ MimeRunLine \/ MimeRunAliases \/ MimeRunDir
    \/ MimeRunReturn
\* Where the running scan goes next; what a loop iteration does to the
\* maps is always possible, so a scan can take a step exactly when `run`
\* can move
RunSteps ==
    \/ IconRunStart \/ IconRunRootAt \/ IconRunReturn
    \/ MimeRunStart \/ MimeRunPath \/ MimeRunLine \/ MimeRunAliases \/ MimeRunDirAt
    \/ MimeRunReturn
SpecSteps == InitSteps /\ [][NextSteps]_vars /\ WF_run(RunSteps)

\* The application: init builds the two caches on the disk it finds, then
\* the runtime calls update and view
AppDisks ==
    { [files |-> {}, pkgs |-> {}, alias_files |-> {}],
      [files |-> CacheFiles,
       pkgs |-> {f \in CachePkgs : f.body.kind = "doc"},
       alias_files |-> CacheAliases] }
InitApp ==
    /\ env \in CacheEnvs
    /\ \E d \in AppDisks :
          /\ files = d.files
          /\ pkgs = d.pkgs
          /\ alias_files = d.alias_files
    /\ by_full_name = EmptyMap
    /\ by_name_no_ext = EmptyMap
    /\ icon_op = "new"
    /\ icon_scans = 0
    /\ icon_ret = None
    /\ mime_descriptions = EmptyMap
    /\ mime_op = "new"
    /\ mime_cleared = 0
    /\ mime_order = << >>
    /\ mime_ret = None
    /\ \E args \in {None} \cup {Some(p) : p \in DesktopPaths} : app = AppNew(args)
    /\ run = NoRun
NextApp == AppInitMimeCache \/ AppInitIconCache \/ AppInitLoad \/ AppUpdate \/ AppView
SpecApp == InitApp /\ [][NextApp]_vars

----------------------------------------------------------------------------
(* Vocabulary of the properties *)

\* What IconCache::lookup returns in the current state
IconLookupNow(name) == lookup(by_full_name, by_name_no_ext, name)

IndexOf(seq, x) ==
    IF \E i \in DOMAIN seq : seq[i] = x THEN CHOOSE i \in DOMAIN seq : seq[i] = x ELSE 0

\* The place of file f in the walk of base number b: 1..108 for the
\* theme/size/context directory holding it (themes first, then sizes, then
\* contexts), 109 for base/pixmaps, 0 when the walk of that base never
\* reaches f
CallIn(b, f) ==
    LET base == icon_search_dirs(env)[b]
        rel == SubSeq(f, Len(base) + 1, Len(f))
    IN IF ~IsPrefix(base, f) THEN 0
       ELSE IF /\ Len(rel) > 3
               /\ \E t \in DOMAIN THEMES : rel[1] = <<THEMES[t]>>
               /\ \E z \in DOMAIN SIZES : rel[2] = <<SIZES[z]>>
               /\ \E c \in DOMAIN CONTEXTS : rel[3] = <<CONTEXTS[c]>>
       THEN ((IndexOf(THEMES, rel[1][1]) - 1) * 36)
            + ((IndexOf(SIZES, rel[2][1]) - 1) * 4) + IndexOf(CONTEXTS, rel[3][1])
       ELSE IF Len(rel) > 1 /\ rel[1] = <<"pixmaps">> THEN 109
       ELSE 0

\* The first base whose walk reaches f, 0 when none does
BaseOf(f) ==
    LET bs == {b \in DOMAIN icon_search_dirs(env) : CallIn(b, f) > 0}
    IN IF bs = {} THEN 0 ELSE CHOOSE b \in bs : \A c \in bs : b <= c

\* The position, among all the directories scan walks, of the first one
\* that reaches f; 0 when none does
CallOf(f) == IF BaseOf(f) = 0 THEN 0 ELSE ((BaseOf(f) - 1) * 109) + CallIn(BaseOf(f), f)

AllowedExt(f) ==
    extension(f) # None /\ extension(f)[1] \in {"png", "svg", "xpm", "ico", "jpg", "jpeg"}

\* f is a file the scan indexes
Indexed(f) == f \in files /\ CallOf(f) > 0 /\ AllowedExt(f)

----------------------------------------------------------------------------
(* C1 *)

\* C1: lookup(name) returns the by_full_name entry whenever name is a key of
\* by_full_name, also when by_name_no_ext maps name to another path; it
\* returns the by_name_no_ext entry only when by_full_name has no such key,
\* and None only when neither map has the key.
C1_LookupPrecedence ==
    icon_ret # None =>
        LET name == icon_ret[1].name
            ret == icon_ret[1].ret
        IN /\ name \in DOMAIN by_full_name => ret = Some(by_full_name[name])
           /\ (name \notin DOMAIN by_full_name /\ name \in DOMAIN by_name_no_ext)
                 => ret = Some(by_name_no_ext[name])
           /\ ret = None <=> (name \notin DOMAIN by_full_name /\ name \notin DOMAIN by_name_no_ext)

\* foo.svg and foo.svg.png are both indexed and lookup("foo.svg") was called
C1_Witness ==
    /\ icon_ret # None
    /\ icon_ret[1].name \in DOMAIN by_full_name
    /\ icon_ret[1].name \in DOMAIN by_name_no_ext
    /\ by_full_name[icon_ret[1].name] # by_name_no_ext[icon_ret[1].name]

----------------------------------------------------------------------------
(* C2 *)

\* C2: after scan(), for every file foo.svg below a base/theme/size/context
\* directory such that no directory scanned earlier (nor the same one) holds
\* another file with the same name or stem, lookup("foo.svg") and
\* lookup("foo") both return that file.
C2_ThemedSvgIsFound ==
    icon_op = "scan" =>
        \A f \in files :
            (/\ extension(f) = Some("svg")
             /\ CallOf(f) > 0
             /\ CallIn(BaseOf(f), f) <= 108
             /\ ~\E g \in files \ {f} :
                    /\ CallOf(g) > 0
                    /\ CallOf(g) <= CallOf(f)
                    /\ (file_name(g) = file_name(f) \/ file_stem(g) = file_stem(f)))
            => /\ IconLookupNow(file_name(f)) = Some(f)
               /\ IconLookupNow(file_stem(f)) = Some(f)

----------------------------------------------------------------------------
(* C3 *)

\* f is the only indexed file with property same(f, .) in the bases up to its
\* own, and g is an indexed copy under a later base
EarlierCopy(f, g, same(_, _)) ==
    /\ Indexed(f) /\ Indexed(g)
    /\ BaseOf(f) < BaseOf(g)
    /\ same(f, g)
    /\ \A h \in files \ {f} : (Indexed(h) /\ same(f, h)) => BaseOf(f) < BaseOf(h)

SameName(f, g) == file_name(f) = file_name(g)
SameStem(f, g) == file_stem(f) = file_stem(g)

\* C3 as stated: after a scan from empty maps, when the same filename (resp.
\* stem) exists under two bases, lookup of the filename (resp. the stem)
\* returns the copy under the earlier base.
C3_LookupReturnsEarlierBase ==
    (icon_op = "scan" /\ icon_scans = 1) =>
        \A f, g \in files :
            /\ EarlierCopy(f, g, SameName) => IconLookupNow(file_name(f)) = Some(f)
            /\ EarlierCopy(f, g, SameStem) => IconLookupNow(file_stem(f)) = Some(f)

\* After a scan from empty maps each index holds the copy of the earlier
\* base; lookup of the stem returns it unless the stem is also a key of
\* by_full_name
C3_EarlierBaseWins ==
    (icon_op = "scan" /\ icon_scans = 1) =>
        \A f, g \in files :
            /\ EarlierCopy(f, g, SameName) =>
                 /\ get(by_full_name, file_name(f)) = Some(f)
                 /\ IconLookupNow(file_name(f)) = Some(f)
            /\ EarlierCopy(f, g, SameStem) =>
                 /\ get(by_name_no_ext, file_stem(f)) = Some(f)
                 /\ file_stem(f) \notin DOMAIN by_full_name
                        => IconLookupNow(file_stem(f)) = Some(f)

\* No step replaces the value of a key either index already has
KeysKept ==
    /\ \A k \in DOMAIN by_full_name :
           k \in DOMAIN by_full_name' /\ by_full_name'[k] = by_full_name[k]
    /\ \A k \in DOMAIN by_name_no_ext :
           k \in DOMAIN by_name_no_ext' /\ by_name_no_ext'[k] = by_name_no_ext[k]

\* C3 (amended): both indexes are first-writer-wins in base-directory order:
\* after a scan from empty maps the filename index and the stem index hold
\* the copy of the earlier base, lookup of the filename returns it, lookup of
\* the stem returns it unless the stem is itself a key of the filename
\* index; and no insertion ever overwrites an existing key.
C3_FirstWriterWins == []C3_EarlierBaseWins /\ [][KeysKept]_vars

\* The same filename under two bases, scanned from empty maps
C3_Witness ==
    /\ icon_op = "scan" /\ icon_scans = 1
    /\ \E f, g \in files : EarlierCopy(f, g, SameName) /\ by_full_name[file_name(f)] = f

----------------------------------------------------------------------------
(* C4 *)

\* C4: scan() is a full rebuild: after any scan both maps hold only files
\* present in the tree that scan saw; a key whose file is gone is absent and
\* lookup on it returns None.
C4_ScanIsFullRebuild ==
    icon_op = "scan" =>
        /\ \A k \in DOMAIN by_full_name : by_full_name[k] \in files
        /\ \A k \in DOMAIN by_name_no_ext : by_name_no_ext[k] \in files
        /\ \A name \in LookupNames :
               IconLookupNow(name) # None => IconLookupNow(name)[1] \in files

----------------------------------------------------------------------------
(* C6 *)

\* C6: a file whose extension is not one of png, svg, xpm, ico, jpg, jpeg
\* (or that has none) is never inserted into either index; when no other
\* file shares its name or stem, lookup on its filename and on its stem
\* return None after scan().
C6_OtherExtensionsNotIndexed ==
    /\ \A k \in DOMAIN by_full_name : AllowedExt(by_full_name[k])
    /\ \A k \in DOMAIN by_name_no_ext : AllowedExt(by_name_no_ext[k])
    /\ icon_op = "scan" =>
         \A f \in files :
            (/\ ~AllowedExt(f)
             /\ \A g \in files \ {f} :
                    {file_name(g), file_stem(g)} \cap {file_name(f), file_stem(f)} = {})
            => /\ IconLookupNow(file_name(f)) = None
               /\ IconLookupNow(file_stem(f)) = None

----------------------------------------------------------------------------
(* Vocabulary of the mime properties *)

MimeLookupNow(name) == mime_lookup(mime_descriptions, name)

\* The well-formed .xml files directly in a candidate directory
ScannedDocs ==
    {f \in pkgs :
        /\ \E i \in DOMAIN candidate_mime_dirs(env) :
               /\ Len(f.path) = Len(candidate_mime_dirs(env)[i]) + 1
               /\ IsPrefix(candidate_mime_dirs(env)[i], f.path)
        /\ extension(f.path) = Some("xml")
        /\ f.body.kind = "doc"}

\* The mime-type elements the scan processes
ScannedNodes == {f.body.doc[i] : <<f, i>> \in {x \in ScannedDocs \X (1 .. 4) : x[2] <= Len(x[1].body.doc)}}

\* The comments of a node with non-blank text: those whose language is in
\* the preference list, and those without language
Localized(node) ==
    {node.comments[i] : i \in {j \in DOMAIN node.comments :
        /\ trim(node.comments[j].text) # <<>>
        /\ node.comments[j].lang # None
        /\ \E p \in DOMAIN env.LANGS : env.LANGS[p] = node.comments[j].lang[1]}}
Unlocalized(node) ==
    {node.comments[i] : i \in {j \in DOMAIN node.comments :
        /\ trim(node.comments[j].text) # <<>>
        /\ node.comments[j].lang = None}}

\* Position of a language in the preference list
Pos(lang) == CHOOSE p \in DOMAIN env.LANGS :
                /\ env.LANGS[p] = lang
                /\ \A q \in DOMAIN env.LANGS : env.LANGS[q] = lang => p <= q

\* The texts of the localized comments of the most preferred language
BestTexts(node) ==
    {trim(c.text) : c \in {d \in Localized(node) :
        \A o \in Localized(node) : Pos(d.lang[1]) <= Pos(o.lang[1])}}

\* The alias table of the last scan's environment
AliasTable == get_mime_aliases(env, alias_files)

\* Node is the only scanned element of its type, and no scanned element of
\* another type has that type as its alias
OnlySource(node) ==
    /\ node.type # None
    /\ \A o \in ScannedNodes \ {node} :
          /\ o.type # node.type
          /\ o.type # None => get(AliasTable, o.type[1]) # node.type

----------------------------------------------------------------------------
(* C5 *)

\* C5: MimeCache.scan() is a full rebuild: after any scan every entry of
\* mime_descriptions is the text of a comment that a package file present
\* at that scan declares for the key (or for a type the alias table maps to
\* the key); a type described only by a removed file is absent.
C5_MimeScanIsFullRebuild ==
    mime_op = "scan" =>
        \A t \in DOMAIN mime_descriptions :
            \E node \in ScannedNodes :
                /\ node.type # None
                /\ (node.type[1] = t \/ get(AliasTable, node.type[1]) = Some(t))
                /\ \E i \in DOMAIN node.comments :
                       trim(node.comments[i].text) = mime_descriptions[t]

\* A scan cleared a non-empty map and found nothing to put back
C5_Witness ==
    /\ mime_op = "scan"
    /\ mime_cleared > 0
    /\ mime_descriptions = EmptyMap

----------------------------------------------------------------------------
(* C7 *)

\* C7: for a mime-type element with localized comments, the description
\* chosen is the text of the comment whose language has the lowest position
\* in the preference list, whatever the order of the comments in the
\* document.
C7_BestLanguageWins ==
    mime_op = "scan" =>
        \A node \in ScannedNodes :
            (OnlySource(node) /\ Localized(node) # {})
            => /\ node.type[1] \in DOMAIN mime_descriptions
               /\ mime_descriptions[node.type[1]] \in BestTexts(node)

\* <comment xml:lang="fr"> before <comment xml:lang="en">, English preferred
C7_Witness ==
    /\ mime_op = "scan"
    /\ env.LANGS = <<"en", "fr">>
    /\ \E node \in ScannedNodes :
          /\ OnlySource(node)
          /\ Len(node.comments) = 2
          /\ node.comments[1].lang = Some("fr")
          /\ node.comments[2].lang = Some("en")
          /\ MimeLookupNow(node.type[1]) = Some(trim(node.comments[2].text))

----------------------------------------------------------------------------
(* C8 *)

\* C8: a localized comment matching the preference list is chosen over any
\* unlocalized comment whatever the document order; without a match the
\* unlocalized text is chosen; with neither, the element inserts nothing.
C8_FinalChoice ==
    mime_op = "scan" =>
        \A node \in ScannedNodes :
            OnlySource(node) =>
               LET t == node.type[1] IN
               /\ Localized(node) # {} =>
                    /\ t \in DOMAIN mime_descriptions
                    /\ mime_descriptions[t] \in {trim(c.text) : c \in Localized(node)}
               /\ (Localized(node) = {} /\ Unlocalized(node) # {}) =>
                    /\ t \in DOMAIN mime_descriptions
                    /\ mime_descriptions[t] \in {trim(c.text) : c \in Unlocalized(node)}
               /\ (Localized(node) = {} /\ Unlocalized(node) = {}) =>
                    t \notin DOMAIN mime_descriptions

\* One scan met the three cases: an unlocalized comment placed before the
\* localized one that wins, a fallback next to a foreign language, and an
\* element with a foreign language only
C8_Witness ==
    /\ mime_op = "scan"
    /\ \E node \in ScannedNodes :
          /\ OnlySource(node) /\ Localized(node) # {}
          /\ node.comments[1].lang = None /\ trim(node.comments[1].text) # <<>>
          /\ MimeLookupNow(node.type[1]) # Some(trim(node.comments[1].text))
    /\ \E node \in ScannedNodes :
          /\ OnlySource(node) /\ Localized(node) = {} /\ Unlocalized(node) # {}
          /\ \E i \in DOMAIN node.comments : node.comments[i].lang # None
          /\ MimeLookupNow(node.type[1]) # None
    /\ \E node \in ScannedNodes :
          /\ OnlySource(node) /\ Localized(node) = {} /\ Unlocalized(node) = {}
          /\ node.comments # <<>>
          /\ MimeLookupNow(node.type[1]) = None

----------------------------------------------------------------------------
(* C9 *)

\* An alias file that get_mime_aliases reads holds this line
AliasLineRead(line) ==
    \E f \in alias_files :
        /\ \E i \in DOMAIN alias_paths(env) : alias_paths(env)[i] = f.path
        /\ \E i \in DOMAIN f.lines : f.lines[i] = line

\* The scanned package files describe type t
Described(t) ==
    \E node \in ScannedNodes :
        node.type = Some(t) /\ (Localized(node) # {} \/ Unlocalized(node) # {})

\* The scanned package files have no element of type t
Undeclared(t) == \A node \in ScannedNodes : node.type # Some(t)

----------------------------------------------------------------------------
(* C10 *)

\* In document f, element i declares with a description the type that the
\* alias table gives for the type of the later element j, and nothing the
\* scan processes outside f touches either key
DirectBeforeCanonical(f, i, j) ==
    LET doc == f.body.doc IN
    /\ i < j /\ j <= Len(doc)
    /\ doc[i].type # None /\ doc[j].type # None
    /\ get(AliasTable, doc[j].type[1]) = doc[i].type
    /\ (Localized(doc[i]) # {} \/ Unlocalized(doc[i]) # {})
    /\ (Localized(doc[j]) # {} \/ Unlocalized(doc[j]) # {})
    /\ \A k \in 1 .. (i - 1) :
          doc[k].type # None =>
             /\ doc[k].type # doc[i].type
             /\ get(AliasTable, doc[k].type[1]) # doc[i].type
    /\ \A g \in ScannedDocs \ {f} : \A k \in DOMAIN g.body.doc :
          g.body.doc[k].type # None =>
             /\ g.body.doc[k].type # doc[i].type
             /\ get(AliasTable, g.body.doc[k].type[1]) # doc[i].type

\* C10: alias propagation is insert-if-absent: when the alias type got its
\* description from direct scanning earlier in the same scan, processing the
\* canonical type leaves the description of the alias key unchanged.
C10_AliasKeepsDirectDescription ==
    mime_op = "scan" =>
        \A f \in ScannedDocs : \A i, j \in 1 .. 4 :
            DirectBeforeCanonical(f, i, j)
            => /\ MimeLookupNow(f.body.doc[i].type[1]) # None
               /\ MimeLookupNow(f.body.doc[i].type[1])[1]
                     \in {trim(f.body.doc[i].comments[k].text) : k \in DOMAIN f.body.doc[i].comments}

\* The alias type was declared directly before its canonical type, and the
\* two keys hold different descriptions after the scan
C10_Witness ==
    /\ mime_op = "scan"
    /\ \E f \in ScannedDocs : \E i, j \in 1 .. 4 :
          /\ DirectBeforeCanonical(f, i, j)
          /\ MimeLookupNow(f.body.doc[j].type[1]) # None
          /\ MimeLookupNow(f.body.doc[j].type[1]) # MimeLookupNow(f.body.doc[i].type[1])

----------------------------------------------------------------------------
(* C11 *)

\* The scanned element node declares a comment, localized or not, whose
\* trimmed text is not empty
DeclaresComment(node) ==
    \E i \in DOMAIN node.comments : trim(node.comments[i].text) # << >>

\* C11 as stated: every key of mime_descriptions after scan() is a type for
\* which a scanned package file declares, for that same type, a comment with
\* non-empty trimmed text.
C11_KeysDeclaredDirectly ==
    mime_op = "scan" =>
        \A t \in DOMAIN mime_descriptions :
            \E node \in ScannedNodes : node.type = Some(t) /\ DeclaresComment(node)

\* C11 (amended): every key of mime_descriptions after scan() is a type for
\* which a scanned package file declares a comment with non-empty trimmed
\* text, either for that same type or for a type that the alias table maps
\* to the key.
C11_KeysDeclaredOrAliased ==
    mime_op = "scan" =>
        \A t \in DOMAIN mime_descriptions :
            \E node \in ScannedNodes :
                /\ node.type # None
                /\ (node.type = Some(t) \/ get(AliasTable, node.type[1]) = Some(t))
                /\ DeclaresComment(node)

\* A key that no scanned element declares: it has the description of the
\* type whose alias it is
C11_Witness ==
    /\ mime_op = "scan"
    /\ \E t \in DOMAIN mime_descriptions :
          /\ Undeclared(t)
          /\ \E node \in ScannedNodes :
                 /\ node.type # None
                 /\ get(AliasTable, node.type[1]) = Some(t)
                 /\ DeclaresComment(node)
                 /\ MimeLookupNow(node.type[1]) = MimeLookupNow(t)

----------------------------------------------------------------------------
(* C12 *)

\* The entries with extension xml, directly in a candidate directory, whose
\* content is not well-formed XML
MalformedFiles ==
    {f \in pkgs :
        /\ \E i \in DOMAIN candidate_mime_dirs(env) :
               /\ Len(f.path) = Len(candidate_mime_dirs(env)[i]) + 1
               /\ IsPrefix(candidate_mime_dirs(env)[i], f.path)
        /\ extension(f.path) = Some("xml")
        /\ f.body.kind = "malformed"}

\* C12: a package file that is not well-formed XML contributes no entries
\* and does not stop the scan: the scan leaves the map it leaves, with the
\* same enumeration order, when the malformed files are not there, and every
\* type that a well-formed scanned file describes has an entry.
C12_MalformedFileIsSkipped ==
    (mime_op = "scan" /\ MalformedFiles # {}) =>
        /\ \E rank \in Ranks({f.path : f \in pkgs}) :
              /\ scan_order(env, pkgs, rank) = mime_order
              /\ mime_descriptions
                    = mime_scan(EmptyMap, env, pkgs \ MalformedFiles, alias_files, rank)
        /\ \A node \in ScannedNodes :
              (node.type # None /\ (Localized(node) # {} \/ Unlocalized(node) # {}))
              => MimeLookupNow(node.type[1]) # None

\* The scan met a malformed file before a well-formed file of the same
\* directory, and the type the latter describes has its description
C12_Witness ==
    /\ mime_op = "scan"
    /\ \E m \in MalformedFiles : \E f \in ScannedDocs :
          /\ SubSeq(m.path, 1, Len(m.path) - 1) = SubSeq(f.path, 1, Len(f.path) - 1)
          /\ \E i, j \in DOMAIN mime_order :
                 i < j /\ mime_order[i] = m.path /\ mime_order[j] = f.path
          /\ \E k \in DOMAIN f.body.doc :
                 /\ f.body.doc[k].type # None
                 /\ MimeLookupNow(f.body.doc[k].type[1]) # None
                 /\ MimeLookupNow(f.body.doc[k].type[1]) # Some(<<"Broken">>)

----------------------------------------------------------------------------
(* C14 *)

\* The mime-type elements the last scan processed, in the order it
\* processed them: directory by directory, entry by entry, in document order
RECURSIVE NodesInOrder(_)
NodesInOrder(order) ==
    IF order = << >> THEN << >>
    ELSE (IF \E f \in ScannedDocs : f.path = Head(order)
          THEN (CHOOSE f \in ScannedDocs : f.path = Head(order)).body.doc
          ELSE << >>)
         \o NodesInOrder(Tail(order))

\* The text an element gives its type: a localized comment of a preferred
\* language, else an unlocalized comment
HasDescription(node) ==
    node.type # None /\ (Localized(node) # {} \/ Unlocalized(node) # {})

\* The positions in NodesInOrder of the elements of type t that have a
\* description
DirectSources(t) ==
    {i \in DOMAIN NodesInOrder(mime_order) :
        /\ HasDescription(NodesInOrder(mime_order)[i])
        /\ NodesInOrder(mime_order)[i].type = Some(t)}

\* ... and of the elements of a type whose alias is t
AliasSources(t) ==
    {i \in DOMAIN NodesInOrder(mime_order) :
        /\ HasDescription(NodesInOrder(mime_order)[i])
        /\ get(AliasTable, NodesInOrder(mime_order)[i].type[1]) = Some(t)}

First(S) == CHOOSE i \in S : \A j \in S : i <= j

\* The texts element number i of NodesInOrder can give: those of its most
\* preferred language, else those of its unlocalized comments
TextsOf(i) ==
    LET node == NodesInOrder(mime_order)[i]
    IN IF Localized(node) # {} THEN BestTexts(node)
       ELSE {trim(c.text) : c \in Unlocalized(node)}

\* C14 as stated: when several mime-type elements give the same type a
\* description, the value stored after scan() is the one of the element
\* processed first.
C14_FirstElementWins ==
    mime_op = "scan" =>
        \A t \in {Markdown, XMarkdown, Plain, Blank} :
            Cardinality(DirectSources(t)) > 1 =>
                /\ MimeLookupNow(t) # None
                /\ MimeLookupNow(t)[1] \in TextsOf(First(DirectSources(t)))

\* C14 (amended): mime_descriptions is insert-if-absent over the whole scan:
\* the value stored for a type is the one of the element processed first
\* among the elements of that type and the elements of a type whose alias
\* it is; a type without any such element has no entry.
C14_FirstSourceWins ==
    mime_op = "scan" =>
        \A t \in {Markdown, XMarkdown, Plain, Blank} \cup DOMAIN mime_descriptions :
            LET src == DirectSources(t) \cup AliasSources(t) IN
            /\ src = {} => MimeLookupNow(t) = None
            /\ src # {} =>
                 /\ MimeLookupNow(t) # None
                 /\ MimeLookupNow(t)[1] \in TextsOf(First(src))

\* Several elements gave a description to the same type, which is the alias
\* of no described type, and the entry is the text of the one processed
\* first, not the text of another one
C14_Witness ==
    /\ mime_op = "scan"
    /\ \E t \in DOMAIN mime_descriptions :
          /\ Cardinality(DirectSources(t)) > 1
          /\ AliasSources(t) = {}
          /\ mime_descriptions[t] \in TextsOf(First(DirectSources(t)))
          /\ \E i \in DirectSources(t) : mime_descriptions[t] \notin TextsOf(i)

----------------------------------------------------------------------------
(* C15 *)

\* The candidate alias files in the order of the specification: the standard
\* system path, the local-system path and, when sandboxed, the
\* runtime-provided path and the app-provided path
ListedAliasPaths ==
    << SysAliases, LocalAliases >>
    \o (IF env.FLATPAK_ID # None
        THEN (IF env.FLATPAK_RUNTIME_DIR # None /\ env.FLATPAK_RUNTIME_DIR[1].unicode
              THEN << env.FLATPAK_RUNTIME_DIR[1].v \o P(<<"mime", "aliases">>) >>
              ELSE << >>)
             \o << AppAliases >>
        ELSE << >>)

\* The entries the lines of one alias file give
EntriesOf(f) == alias_lines(EmptyMap, f.lines, 1)

\* The positions in ListedAliasPaths of the readable files with an entry for key
Holders(key) ==
    {i \in DOMAIN ListedAliasPaths :
        \E f \in alias_files : f.path = ListedAliasPaths[i] /\ key \in DOMAIN EntriesOf(f)}

Last(S) == CHOOSE i \in S : \A j \in S : j <= i

\* C15: get_mime_aliases() reads the standard system file, the local-system
\* file and, only if sandboxed, the runtime-provided then the app-provided
\* file; a key found in several readable files has the value of the file
\* that is last in that list.
C15_LastListedFileWins ==
    mime_op = "scan" =>
        \A f \in alias_files : \A key \in DOMAIN EntriesOf(f) :
            Holders(key) # {} =>
                LET g == CHOOSE h \in alias_files : h.path = ListedAliasPaths[Last(Holders(key))]
                IN get(AliasTable, key) = Some(EntriesOf(g)[key])

----------------------------------------------------------------------------
(* C16 *)

\* The columns of a line: its pieces that are not whitespace
Columns(line) == SelectSeq(line, LAMBDA p : p \notin WS)

\* The line is blank, or its first non-whitespace character is '#'
BlankOrComment(line) == Columns(line) = << >> \/ Columns(line)[1] = "#"

\* The lines of the alias files the last scan read
LinesRead ==
    UNION {{f.lines[i] : i \in DOMAIN f.lines} :
              f \in {g \in alias_files :
                        \E k \in DOMAIN alias_paths(env) : alias_paths(env)[k] = g.path}}

\* C16: a blank line, a '#' line and a line with a single token yield no
\* entry; every other line `<canonical> <alias>`, the two columns separated
\* by a run of one or more whitespace characters, yields the entry
\* canonical -> alias, both strings without whitespace.
C16_AliasLineParsing ==
    mime_op = "scan" =>
        \A line \in LinesRead :
            /\ (BlankOrComment(line) \/ Len(Columns(line)) = 1)
                  => alias_line(EmptyMap, line) = EmptyMap
            /\ (~BlankOrComment(line) /\ Len(Columns(line)) = 2)
                  => alias_line(EmptyMap, line) = (<<Columns(line)[1]>> :> <<Columns(line)[2]>>)
            /\ \A k \in DOMAIN alias_line(EmptyMap, line) :
                  /\ \A i \in DOMAIN k : k[i] \notin WS
                  /\ \A i \in DOMAIN alias_line(EmptyMap, line)[k] :
                         alias_line(EmptyMap, line)[k][i] \notin WS

----------------------------------------------------------------------------
(* C18 *)

\* C18: an allow-listed image file directly in /usr/share/pixmaps is indexed
\* by scan(): when no scanned directory supplies the same filename or stem,
\* lookup of its filename and of its stem return that file.
C18_FlatPixmapsIndexed ==
    icon_op = "scan" =>
        \A f \in files :
            (/\ Len(f) = Len(SysPixmaps) + 1
             /\ IsPrefix(SysPixmaps, f)
             /\ AllowedExt(f)
             /\ \A g \in files \ {f} :
                    {file_name(g), file_stem(g)} \cap {file_name(f), file_stem(f)} = {})
            => /\ IconLookupNow(file_name(f)) = Some(f)
               /\ IconLookupNow(file_stem(f)) = Some(f)

----------------------------------------------------------------------------
(* C19 *)

\* The value of a variable that is set, whatever its bytes
SetValue(k) == IF env[k] # None THEN Some(env[k][1].v) ELSE None

\* The value of a variable that is set to valid Unicode
UnicodeValue(k) == IF env[k] # None /\ env[k][1].unicode THEN Some(env[k][1].v) ELSE None

\* The base directories in the order of the specification, val telling the
\* value a data-directory variable counts with: (1) the icons directory of
\* the user data directory, (2) the icons directory of each system data
\* directory, (3) when sandboxed the two host roots, (4) the pixmaps
\* directory
ListedBases(val(_)) ==
    (IF val("XDG_DATA_HOME") # None
     THEN << val("XDG_DATA_HOME")[1] \o << <<"icons">> >> >>
     ELSE IF env.HOME # None
     THEN << env.HOME[1] \o << <<"", "local">>, <<"share">>, <<"icons">> >> >>
     ELSE << >>)
    \o (IF val("XDG_DATA_DIRS") # None
        THEN [i \in 1 .. Len(val("XDG_DATA_DIRS")[1]) |->
                 val("XDG_DATA_DIRS")[1][i] \o << <<"icons">> >>]
        ELSE << << <<"usr">>, <<"local">>, <<"share">>, <<"icons">> >>,
                << <<"usr">>, <<"share">>, <<"icons">> >> >>)
    \o (IF env.FLATPAK_ID # None
        THEN << << <<"run">>, <<"host">>, <<"usr">>, <<"share">>, <<"icons">> >>,
                << <<"run">>, <<"host">>, <<"share">>, <<"icons">> >> >>
        ELSE << >>)
    \o << << <<"usr">>, <<"share">>, <<"pixmaps">> >> >>

\* The place in the list bases of the first base that f lies under
ListedBaseOf(bases, f) ==
    CHOOSE i \in DOMAIN bases :
        /\ IsPrefix(bases[i], f)
        /\ \A j \in DOMAIN bases : IsPrefix(bases[j], f) => i <= j

\* The list bases is the order of the walk and of precedence: after a scan
\* from empty maps no filename is held by a copy under a later base while an
\* indexed copy lies under an earlier one
ScannedInOrder(bases) ==
    /\ icon_op = "scan" => icon_search_dirs(env) = bases
    /\ (icon_op = "scan" /\ icon_scans = 1) =>
          \A f, g \in files :
              (/\ Indexed(f) /\ Indexed(g)
               /\ file_name(f) = file_name(g)
               /\ ListedBaseOf(bases, f) < ListedBaseOf(bases, g))
              => get(by_full_name, file_name(g)) # Some(g)

\* C19 as stated: the base directories are scanned in the order (1)
\* XDG_DATA_HOME/icons if that variable is set, otherwise
\* ~/.local/share/icons; (2) each entry of XDG_DATA_DIRS with icons appended,
\* or /usr/local/share/icons then /usr/share/icons if it is unset; (3) if
\* sandboxed, the two host roots; (4) the system pixmaps directory.
C19_BaseOrderWhenSet == ScannedInOrder(ListedBases(SetValue))

\* C19 (amended): the same order, a data-directory variable counting as set
\* only when its value is valid Unicode.
C19_BaseOrderWhenUnicode == ScannedInOrder(ListedBases(UnicodeValue))

\* XDG_DATA_DIRS lists /usr/share before /usr/local/share, both hold the same
\* filename, and the scan kept the copy of /usr/share/icons
C19_Witness ==
    /\ icon_op = "scan" /\ icon_scans = 1
    /\ env.XDG_DATA_DIRS # None
    /\ \E f, g \in files :
          /\ Indexed(f) /\ Indexed(g)
          /\ file_name(f) = file_name(g)
          /\ IsPrefix(P(<<"usr", "share", "icons">>), f)
          /\ IsPrefix(P(<<"usr", "local", "share", "icons">>), g)
          /\ get(by_full_name, file_name(f)) = Some(f)

----------------------------------------------------------------------------
(* C20 *)

\* C20: after any scan() returns, a first one or a later one, every path
\* stored in by_full_name or by_name_no_ext is a file that is on disk and
\* that this scan enumerated.
C20_StoredPathsEnumerated ==
    icon_op = "scan" =>
        /\ \A k \in DOMAIN by_full_name : Indexed(by_full_name[k])
        /\ \A k \in DOMAIN by_name_no_ext : Indexed(by_name_no_ext[k])

----------------------------------------------------------------------------
(* C13 *)

\* The entries with extension xml, directly in a candidate directory, that
\* cannot be read
UnreadableFiles ==
    {f \in pkgs :
        /\ \E i \in DOMAIN candidate_mime_dirs(env) :
               /\ Len(f.path) = Len(candidate_mime_dirs(env)[i]) + 1
               /\ IsPrefix(candidate_mime_dirs(env)[i], f.path)
        /\ extension(f.path) = Some("xml")
        /\ f.body.kind = "unreadable"}

\* The alias files that are there among the candidate paths
AliasFilesRead ==
    {f \in alias_files : \E k \in DOMAIN alias_paths(env) : alias_paths(env)[k] = f.path}

\* Once MimeCache::scan has returned: every type a readable well-formed
\* file of a candidate directory describes has an entry, every entry is a
\* text of such a file, and every alias that a candidate alias file that is
\* there gives to a described type has an entry
MimeScanSkips ==
    mime_op = "scan" =>
        /\ \A node \in ScannedNodes : HasDescription(node) => MimeLookupNow(node.type[1]) # None
        /\ \A t \in DOMAIN mime_descriptions :
              \E node \in ScannedNodes : \E i \in DOMAIN node.comments :
                  trim(node.comments[i].text) = mime_descriptions[t]
        /\ \A f \in AliasFilesRead : \A key \in DOMAIN EntriesOf(f) :
              Described(key) =>
                  \E g \in AliasFilesRead :
                      /\ key \in DOMAIN EntriesOf(g)
                      /\ MimeLookupNow(EntriesOf(g)[key]) # None

\* Once the first IconCache::scan has returned: every image file below a
\* directory of the walk has its filename and its stem as keys, and every
\* entry is such a file
IconScanSkips ==
    (icon_op = "scan" /\ icon_scans = 1) =>
        /\ \A f \in files :
              Indexed(f) => /\ file_name(f) \in DOMAIN by_full_name
                            /\ file_stem(f) \in DOMAIN by_name_no_ext
        /\ \A k \in DOMAIN by_full_name : Indexed(by_full_name[k])
        /\ \A k \in DOMAIN by_name_no_ext : Indexed(by_name_no_ext[k])

----------------------------------------------------------------------------
(* C17 *)

\* A step of a lookup call on either cache, and what it must leave alone
LookupKeepsMaps ==
    (icon_ret' # icon_ret \/ mime_ret' # mime_ret)
    => UNCHANGED <<by_full_name, by_name_no_ext, mime_descriptions>>

\* What a returning lookup returns is what the maps hold for its very
\* argument: MimeCache::lookup the entry of the key equal to it, nothing
\* when no key equals it; IconCache::lookup what a lookup now returns
LookupIsExact ==
    /\ mime_ret # None =>
          LET name == mime_ret[1].name
              ret == mime_ret[1].ret
          IN /\ ret # None <=> name \in DOMAIN mime_descriptions
             /\ ret # None => ret[1] = mime_descriptions[name]
    /\ icon_ret # None => icon_ret[1].ret = IconLookupNow(icon_ret[1].name)

\* C17: lookup on either cache is a pure read: MimeCache.lookup(t) returns
\* the stored description only for a key equal to t, with no case folding,
\* trimming or alias resolution, and no lookup call changes by_full_name,
\* by_name_no_ext or mime_descriptions, so lookups of the same key between
\* two scans return the same result.
C17_LookupIsPureRead == []LookupIsExact /\ [][LookupKeepsMaps]_vars

\* lookup(" text/markdown") returns nothing while text/markdown has an entry
C17_Witness ==
    /\ mime_ret # None
    /\ mime_ret[1].name = <<" ", "text/markdown">>
    /\ mime_ret[1].ret = None
    /\ Markdown \in DOMAIN mime_descriptions
    /\ by_full_name # EmptyMap

----------------------------------------------------------------------------
(* C21 *)

\* The places in the log of the calls of fn
CallsOf(fn) == {i \in DOMAIN app.calls : app.calls[i].fn = fn}

\* Each scan is in the log at most once and is made by init, init returns
\* with both scans made, the MimeCache one first, and every lookup comes
\* after the scan of its cache
ScansPrecedeLookups ==
    /\ \A c \in {"MimeCache", "IconCache"} :
          /\ Cardinality(CallsOf(c \o "::scan")) <= 1
          /\ \A i \in CallsOf(c \o "::scan") : app.calls[i].by = "init"
          /\ (app.pc = "running" \/ app.handled > 0) => Cardinality(CallsOf(c \o "::scan")) = 1
          /\ \A i \in CallsOf(c \o "::lookup") : \E j \in CallsOf(c \o "::scan") : j < i
    /\ icon_scans = Cardinality(CallsOf("IconCache::scan"))
    /\ mime_op = "scan" <=> CallsOf("MimeCache::scan") # {}
    /\ app.pc = "running" => SubSeq(app.calls, 1, 2) = << Call("MimeCache::scan", "init"),
                                                          Call("IconCache::scan", "init") >>

\* A call of update or view leaves the caches as the scans of init made them
HandlersKeepCaches ==
    app.handled' # app.handled
    => UNCHANGED <<by_full_name, by_name_no_ext, icon_scans, icon_op,
                   mime_descriptions, mime_op, mime_order>>

\* C21: each cache is scanned exactly once, during its construction in
\* init, before any message is handled; every lookup (icon button, loading
\* an entry, creating a mimetype) comes after the scan of its cache has
\* returned, and no call of update or view scans, so no scan runs between
\* or during lookups.
C21_ScannedOnceInInit == []ScansPrecedeLookups /\ [][HandlersKeepCaches]_vars

\* init loaded the entry named on the command line, update created a
\* mimetype and view drew the icon button: each made its lookup, after the
\* two scans of init
C21_Witness ==
    /\ app.pc = "running"
    /\ icon_scans = 1 /\ mime_op = "scan"
    /\ \E i, j, k \in DOMAIN app.calls :
          /\ app.calls[i] = Call("MimeCache::lookup", "init")
          /\ app.calls[j] = Call("MimeCache::lookup", "update")
          /\ app.calls[k] = Call("IconCache::lookup", "view")

----------------------------------------------------------------------------
(* C22 *)

\* The places of the comments of node that can become the best match:
\* non-blank text and a language of the preference list
Matching(node) ==
    {j \in DOMAIN node.comments :
        /\ trim(node.comments[j].text) # << >>
        /\ node.comments[j].lang # None
        /\ \E p \in DOMAIN env.LANGS : env.LANGS[p] = node.comments[j].lang[1]}

\* The place of the comment the rule keeps: a later comment replaces the
\* current best only with a strictly lower position, so the first comment
\* in document order among those of the lowest position stays
KeptMatch(node) ==
    CHOOSE j \in Matching(node) :
        \A k \in Matching(node) :
            \/ Pos(node.comments[j].lang[1]) < Pos(node.comments[k].lang[1])
            \/ Pos(node.comments[j].lang[1]) = Pos(node.comments[k].lang[1]) /\ j <= k

\* C22: among the localized comments of one element that match the
\* preference list a later one replaces the best only when its position is
\* strictly lower; of two comments with the same position the text of the
\* first in document order is kept.
C22_TiesKeepFirst ==
    mime_op = "scan" =>
        \A node \in ScannedNodes :
            Matching(node) # {} =>
                /\ chosen(node, env.LANGS) = Some(trim(node.comments[KeptMatch(node)].text))
                /\ OnlySource(node) =>
                      MimeLookupNow(node.type[1])
                         = Some(trim(node.comments[KeptMatch(node)].text))

\* An element with two matching comments of the same language and different
\* texts: the first of the two is the one kept, and the entry is its text
C22_Witness ==
    /\ mime_op = "scan"
    /\ \E node \in ScannedNodes :
          /\ OnlySource(node)
          /\ \E j, k \in Matching(node) :
                 /\ j < k
                 /\ node.comments[j].lang = node.comments[k].lang
                 /\ trim(node.comments[j].text) # trim(node.comments[k].text)
                 /\ j = KeptMatch(node)
                 /\ MimeLookupNow(node.type[1]) = Some(trim(node.comments[j].text))

----------------------------------------------------------------------------
(* C23 *)

\* The places of the comments of node without language and with non-blank
\* text
Plainly(node) ==
    {j \in DOMAIN node.comments :
        trim(node.comments[j].text) # << >> /\ node.comments[j].lang = None}

\* What the comment loop leaves in best_score, best_text and
\* fallback_unlocalized
LoopResult(node) ==
    comment_loop([best_score |-> None, best_text |-> None, fallback_unlocalized |-> None],
                 node.comments, env.LANGS, 1)

\* C23: when an element has several comments without language attribute and
\* with non-empty trimmed text, the unlocalized fallback is the text of the
\* last of them in document order.
C23_LastFallbackWins ==
    mime_op = "scan" =>
        \A node \in ScannedNodes :
            Cardinality(Plainly(node)) > 1 =>
                /\ LoopResult(node).fallback_unlocalized
                      = Some(trim(node.comments[Last(Plainly(node))].text))
                /\ (OnlySource(node) /\ Matching(node) = {}) =>
                      MimeLookupNow(node.type[1])
                         = Some(trim(node.comments[Last(Plainly(node))].text))

\* An element without matching localized comment and with two unlocalized
\* comments of different texts: the entry is the text of the last one
C23_Witness ==
    /\ mime_op = "scan"
    /\ \E node \in ScannedNodes :
          /\ OnlySource(node)
          /\ Matching(node) = {}
          /\ \E j, k \in Plainly(node) :
                 /\ j < k
                 /\ trim(node.comments[j].text) # trim(node.comments[k].text)
                 /\ k = Last(Plainly(node))
                 /\ MimeLookupNow(node.type[1]) = Some(trim(node.comments[k].text))

----------------------------------------------------------------------------
(* C24 *)

\* The element without its comments of empty or whitespace-only text
WithoutBlank(node) ==
    [node EXCEPT !.comments = SelectSeq(node.comments, LAMBDA c : trim(c.text) # << >>)]

\* C24: every value of mime_descriptions is non-empty and has neither
\* leading nor trailing whitespace; a comment whose text is empty or
\* whitespace-only counts as absent: it is neither the best match nor the
\* fallback and displaces no recorded candidate.
C24_BlankCommentsAreAbsent ==
    mime_op = "scan" =>
        /\ \A t \in DOMAIN mime_descriptions :
              LET v == mime_descriptions[t] IN
              v # << >> /\ v[1] \notin WS /\ v[Len(v)] \notin WS
        /\ \A node \in ScannedNodes :
              /\ LoopResult(node) = LoopResult(WithoutBlank(node))
              /\ LoopResult(node).best_text \notin {Some(<< >>)}
              /\ LoopResult(node).fallback_unlocalized \notin {Some(<< >>)}

\* An element whose most preferred language has only a blank comment and
\* whose last unlocalized comments are a blank one after a real one; its
\* entry is a trimmed text written with trailing whitespace in the file
C24_Witness ==
    /\ mime_op = "scan"
    /\ \E node \in ScannedNodes :
          /\ OnlySource(node)
          /\ \E j \in DOMAIN node.comments :
                 /\ node.comments[j].lang = Some(env.LANGS[1])
                 /\ trim(node.comments[j].text) = << >>
          /\ \E j, k \in DOMAIN node.comments :
                 /\ j < k
                 /\ node.comments[j].lang = None /\ node.comments[k].lang = None
                 /\ trim(node.comments[j].text) # << >>
                 /\ trim(node.comments[k].text) = << >>
                 /\ LoopResult(node).fallback_unlocalized # None
          /\ \E j \in DOMAIN node.comments :
                 /\ node.comments[j].text # trim(node.comments[j].text)
                 /\ MimeLookupNow(node.type[1]) = Some(trim(node.comments[j].text))

----------------------------------------------------------------------------
(* C25 *)

\* A package file without its mime-type elements that have no type attribute
WithoutUntyped(f) ==
    [f EXCEPT !.body.doc = SelectSeq(f.body.doc, LAMBDA n : n.type # None)]

\* The scanned files holding an element without type attribute
UntypedFiles == {f \in ScannedDocs : \E i \in DOMAIN f.body.doc : f.body.doc[i].type = None}

\* C25: a mime-type element without type attribute inserts nothing and does
\* not disturb the other elements of its file: the scan leaves the map it
\* leaves, with the same enumeration order, on the files without those
\* elements, and every element of the file with a type and a choosable
\* comment has its entry.
C25_UntypedElementIsSkipped ==
    (mime_op = "scan" /\ UntypedFiles # {}) =>
        /\ \E rank \in Ranks({f.path : f \in pkgs}) :
              /\ scan_order(env, pkgs, rank) = mime_order
              /\ mime_descriptions
                    = mime_scan(EmptyMap, env, {WithoutUntyped(f) : f \in pkgs}, alias_files, rank)
        /\ \A f \in UntypedFiles : \A i \in DOMAIN f.body.doc :
              HasDescription(f.body.doc[i]) => MimeLookupNow(f.body.doc[i].type[1]) # None

\* A file with an element without type, which has a comment of its own, and
\* after it an element with a type no other file describes: that type has
\* its entry, and no entry has the text of the untyped element
C25_Witness ==
    /\ mime_op = "scan"
    /\ \E f \in UntypedFiles : \E i, j \in DOMAIN f.body.doc :
          /\ i < j
          /\ f.body.doc[i].type = None
          /\ Unlocalized(f.body.doc[i]) # {}
          /\ OnlySource(f.body.doc[j])
          /\ HasDescription(f.body.doc[j])
          /\ MimeLookupNow(f.body.doc[j].type[1]) # None
          /\ \A t \in DOMAIN mime_descriptions :
                 mime_descriptions[t] \notin {trim(c.text) : c \in Unlocalized(f.body.doc[i])}

----------------------------------------------------------------------------
(* C26 *)

\* The package files with extension xml that lie directly in a candidate
\* directory
DirectXml ==
    {f \in pkgs :
        /\ \E i \in DOMAIN candidate_mime_dirs(env) :
               /\ Len(f.path) = Len(candidate_mime_dirs(env)[i]) + 1
               /\ IsPrefix(candidate_mime_dirs(env)[i], f.path)
        /\ file_name(f.path)[Len(file_name(f.path))] = "xml"
        /\ Len(file_name(f.path)) > 1}

\* The texts of the comments of a package file
FileTexts(f) ==
    UNION {{trim(f.body.doc[i].comments[j].text) : j \in DOMAIN f.body.doc[i].comments} :
              i \in DOMAIN f.body.doc}

\* C26: MimeCache.scan() reads only the files with extension exactly xml
\* that lie directly in a candidate package directory: a file in a
\* subdirectory of a candidate directory and a file with another extension
\* contribute no description.
C26_OnlyDirectXmlFilesAreRead ==
    mime_op = "scan" =>
        /\ \E rank \in Ranks({f.path : f \in pkgs}) :
              /\ scan_order(env, pkgs, rank) = mime_order
              /\ mime_descriptions = mime_scan(EmptyMap, env, DirectXml, alias_files, rank)
        /\ \A t \in DOMAIN mime_descriptions :
              \E f \in DirectXml : mime_descriptions[t] \in FileTexts(f)

\* The scan met, in a candidate directory, a file with another extension
\* and a subdirectory holding an xml file, each describing a type, and that
\* type has no entry
C26_Witness ==
    /\ mime_op = "scan"
    /\ \E f, g \in pkgs \ DirectXml :
          /\ \E i \in DOMAIN mime_order : mime_order[i] = f.path
          /\ Len(file_name(f.path)) > 1 /\ file_name(f.path)[Len(file_name(f.path))] # "xml"
          /\ \E i \in DOMAIN mime_order : mime_order[i] = SubSeq(g.path, 1, Len(g.path) - 1)
          /\ extension(g.path) = Some("xml")
          /\ \A h \in {f, g} : \E k \in DOMAIN h.body.doc :
                 /\ Unlocalized(h.body.doc[k]) # {}
                 /\ MimeLookupNow(h.body.doc[k].type[1]) = None

----------------------------------------------------------------------------
(* C27 *)

\* The package directories in the order of the claim: sandboxed, the two
\* host-mounted directories then the one of the runtime; otherwise the
\* standard one then the local-system one
ListedPackageDirs ==
    IF env.FLATPAK_ID # None
    THEN << << <<"run">>, <<"host">>, <<"usr">>, <<"share">>, <<"mime">>, <<"packages">> >>,
            << <<"run">>, <<"host">>, <<"share">>, <<"mime">>, <<"packages">> >>,
            << <<"usr">>, <<"share">>, <<"mime">>, <<"packages">> >> >>
    ELSE << << <<"usr">>, <<"share">>, <<"mime">>, <<"packages">> >>,
            << <<"usr">>, <<"local">>, <<"share">>, <<"mime">>, <<"packages">> >> >>

\* The place in ListedPackageDirs of the directory a path lies directly in,
\* 0 when it lies in none
ListedDirOf(path) ==
    LET dir == SubSeq(path, 1, Len(path) - 1)
    IN IF \E k \in DOMAIN ListedPackageDirs : ListedPackageDirs[k] = dir
       THEN CHOOSE k \in DOMAIN ListedPackageDirs : ListedPackageDirs[k] = dir
       ELSE 0

\* The elements that describe type t in the scanned files of listed
\* directory number k
DescribersIn(t, k) ==
    {n \in UNION {{f.body.doc[i] : i \in DOMAIN f.body.doc} :
                     f \in {g \in ScannedDocs : ListedDirOf(g.path) = k}} :
        n.type = Some(t) /\ HasDescription(n)}

\* The texts an element can give its type
NodeTexts(node) ==
    IF Localized(node) # {} THEN BestTexts(node) ELSE {trim(c.text) : c \in Unlocalized(node)}

\* C27: the package directories scanned depend on the sandbox flag only:
\* sandboxed, the two host-mounted directories then /usr/share/mime/packages
\* (and not /usr/local/share/mime/packages); otherwise
\* /usr/share/mime/packages then /usr/local/share/mime/packages, so that of
\* a type described in both the description of /usr/share is the one kept.
C27_PackageDirsBySandboxFlag ==
    mime_op = "scan" =>
        /\ \A i \in DOMAIN mime_order : ListedDirOf(mime_order[i]) > 0
        /\ \A i, j \in DOMAIN mime_order :
              i < j => ListedDirOf(mime_order[i]) <= ListedDirOf(mime_order[j])
        /\ \A f \in pkgs : \A k \in DOMAIN ListedPackageDirs :
              IsPrefix(ListedPackageDirs[k], f.path) =>
                  \E i \in DOMAIN mime_order :
                      mime_order[i] = SubSeq(f.path, 1, Len(ListedPackageDirs[k]) + 1)
        /\ \A t \in {Markdown, XMarkdown, Plain, Blank, Late} :
              \A k \in DOMAIN ListedPackageDirs :
                  (/\ DescribersIn(t, k) # {}
                   /\ \A j \in 1 .. (k - 1) : DescribersIn(t, j) = {}
                   /\ AliasSources(t) = {})
                  => /\ MimeLookupNow(t) # None
                     /\ \E n \in DescribersIn(t, k) : MimeLookupNow(t)[1] \in NodeTexts(n)

\* Not sandboxed, a type described in /usr/share/mime/packages and in
\* /usr/local/share/mime/packages with different texts: the entry is the
\* text of /usr/share
C27_Witness ==
    /\ mime_op = "scan"
    /\ env.FLATPAK_ID = None
    /\ \E t \in DOMAIN mime_descriptions :
          /\ DescribersIn(t, 1) # {} /\ DescribersIn(t, 2) # {}
          /\ AliasSources(t) = {}
          /\ \E n \in DescribersIn(t, 1) : mime_descriptions[t] \in NodeTexts(n)
          /\ \A n \in DescribersIn(t, 2) : mime_descriptions[t] \notin NodeTexts(n)

----------------------------------------------------------------------------
(* C28 *)

\* The path of f below the first base whose walk reaches it
Rel(f) == SubSeq(f, Len(icon_search_dirs(env)[BaseOf(f)]) + 1, Len(f))

\* f lies in a theme/size/context directory of its base, or in its pixmaps
\* directory
Themed(f) == CallIn(BaseOf(f), f) \in 1 .. 108
InPixmaps(f) == CallIn(BaseOf(f), f) = 109

\* The themes from the most preferred to the least
Preferred == <<"cosmic", "Adwaita", "hicolor">>

\* The number of pixels a size directory stands for, scalable above all
Pixels ==
    [z \in {"scalable", "512x512", "256x256", "128x128", "64x64", "48x48", "32x32",
            "24x24", "16x16"} |->
        CASE z = "scalable" -> 1024 [] z = "512x512" -> 512 [] z = "256x256" -> 256
          [] z = "128x128" -> 128 [] z = "64x64" -> 64 [] z = "48x48" -> 48
          [] z = "32x32" -> 32 [] z = "24x24" -> 24 [] z = "16x16" -> 16]

\* Copy f is preferred to copy g: an earlier base; in one base a more
\* preferred theme; in one base and theme a larger size; in one base a
\* theme/size/context directory against the pixmaps directory
Beats(f, g) ==
    \/ BaseOf(f) < BaseOf(g)
    \/ /\ BaseOf(f) = BaseOf(g)
       /\ \/ /\ Themed(f) /\ Themed(g)
             /\ IndexOf(Preferred, Rel(f)[1][1]) < IndexOf(Preferred, Rel(g)[1][1])
          \/ /\ Themed(f) /\ Themed(g)
             /\ Rel(f)[1] = Rel(g)[1]
             /\ Pixels[Rel(f)[2][1]] > Pixels[Rel(g)[2][1]]
          \/ Themed(f) /\ InPixmaps(g)

\* C28: within one scan the enumeration order puts base preference above
\* theme and size preference: of two copies of a filename the one that wins
\* is the one under the earlier base whatever the themes, in one base the
\* one under cosmic against Adwaita against hicolor, in one base and theme
\* the one under scalable against the bitmap sizes and under a larger bitmap
\* size against a smaller, and in one base the one under any
\* theme/size/context directory against the one of the pixmaps
\* subdirectory: the copy that loses is not the one stored.
C28_EnumerationOrderPreference ==
    icon_op = "scan" =>
        \A f, g \in files :
            (/\ Indexed(f) /\ Indexed(g)
             /\ file_name(f) = file_name(g)
             /\ Beats(f, g))
            => get(by_full_name, file_name(g)) # Some(g)

----------------------------------------------------------------------------
(* C29 *)

\* The list without the entries that repeat an earlier one
RECURSIVE Dedup(_)
Dedup(bases) ==
    IF bases = << >> THEN << >>
    ELSE LET init == SubSeq(bases, 1, Len(bases) - 1)
             last == bases[Len(bases)]
         IN IF \E i \in DOMAIN init : init[i] = last
            THEN Dedup(init)
            ELSE Append(Dedup(init), last)

\* The directories the walk of a list of bases can list, in call order
RootsOf(bases, fs) == SelectSeq(ScanRoots(bases), LAMBDA r : read_dir(fs, r) # {})

\* C29: scanning the same base directory a second time later in the same
\* scan is harmless: on a fixed filesystem and with the same enumeration
\* order of the directories, the maps a scan builds from the list of bases
\* are the maps it builds from the list without the repeated entries.
C29_DuplicateBaseIsHarmless ==
    icon_op = "scan" =>
        /\ \A rank \in Ranks(files) :
              scan([full |-> EmptyMap, stem |-> EmptyMap],
                   ListableRoots(env, files), files, rank)
                = scan([full |-> EmptyMap, stem |-> EmptyMap],
                       RootsOf(Dedup(icon_search_dirs(env)), files), files, rank)
        /\ icon_scans = 1 =>
              \E rank \in Ranks(files) :
                  [full |-> by_full_name, stem |-> by_name_no_ext]
                    = scan([full |-> EmptyMap, stem |-> EmptyMap],
                           RootsOf(Dedup(icon_search_dirs(env)), files), files, rank)

\* /usr/share/icons is listed twice with /usr/local/share/icons in between,
\* both hold foo.png, and the scan stored the copy of /usr/share/icons
C29_Witness ==
    /\ icon_op = "scan" /\ icon_scans = 1
    /\ Len(Dedup(icon_search_dirs(env))) < Len(icon_search_dirs(env))
    /\ \E f, g \in files :
          /\ IsPrefix(P(<<"usr", "share", "icons">>), f)
          /\ IsPrefix(P(<<"usr", "local", "share", "icons">>), g)
          /\ Indexed(f) /\ Indexed(g)
          /\ get(by_full_name, file_name(g)) = Some(f)

----------------------------------------------------------------------------
(* C30 *)

\* A started scan returns
IconScanReturns == (run.who = "IconCache::scan") ~> (run = NoRun /\ icon_op = "scan")
MimeScanReturns == (run.who = "MimeCache::scan") ~> (run = NoRun /\ mime_op = "scan")

\* C30: on a finite directory tree IconCache.scan() and MimeCache.scan()
\* each eventually return: every started scan runs to completion, nothing
\* that cannot be read cancelling it or holding it up.
C30_EveryScanReturns == IconScanReturns /\ MimeScanReturns

\* MimeCache::scan returns when none of the alias paths is a directory
MimeScanReturnsOnFiles ==
    (run.who = "MimeCache::scan" /\ get_mime_aliases_returns(env, alias_files))
        ~> (run = NoRun /\ mime_op = "scan")

\* A scan is inside the `for line` loop on a directory, where one more
\* line is all it can ask for
InLinesOfDirectory ==
    /\ run.who = "MimeCache::scan" /\ run.pc = "lines"
    /\ is_dir(alias_files, run.todo[run.i])
    /\ run.item = Some("Err")

\* What the scans that return leave is what the calls taken as a whole leave
StepsAgree ==
    /\ (run = NoRun /\ mime_op = "scan") =>
          \E rank \in Ranks({f.path : f \in pkgs}) :
              /\ mime_descriptions = mime_scan(EmptyMap, env, pkgs, alias_files, rank)
              /\ mime_order = scan_order(env, pkgs, rank)
    /\ (run = NoRun /\ icon_op = "scan") =>
          \E rank \in Ranks(files) :
              [full |-> by_full_name, stem |-> by_name_no_ext]
                = scan([full |-> EmptyMap, stem |-> EmptyMap],
                       ListableRoots(env, files), files, rank)

----------------------------------------------------------------------------
(* C31 *)

\* The stem of a key of by_full_name
StemOfName(f) == file_stem(<<f>>)

\* C31: after any sequence of scans, the stem of every key of by_full_name
\* is a key of by_name_no_ext; every value of by_name_no_ext is the value
\* by_full_name stores under that path's filename; and every key is the
\* filename (in by_full_name) or the stem (in by_name_no_ext) of the path
\* it maps to.
C31_IndexConsistency ==
    /\ \A f \in DOMAIN by_full_name : StemOfName(f) \in DOMAIN by_name_no_ext
    /\ \A s \in DOMAIN by_name_no_ext :
          get(by_full_name, file_name(by_name_no_ext[s])) = Some(by_name_no_ext[s])
    /\ \A f \in DOMAIN by_full_name : file_name(by_full_name[f]) = f
    /\ \A s \in DOMAIN by_name_no_ext : file_stem(by_name_no_ext[s]) = s

\* A second scan has run over two indexed files of the same stem, one of
\* them with the same name as a path stored by an earlier scan that is no
\* longer on disk
C31_Witness ==
    /\ icon_op = "scan" /\ icon_scans >= 2
    /\ \E f, g \in files :
          /\ f # g /\ Indexed(f) /\ Indexed(g)
          /\ file_stem(f) = file_stem(g)
          /\ \E n \in DOMAIN by_full_name :
                by_full_name[n] \notin files /\ n = file_name(f)

----------------------------------------------------------------------------
(* C32 *)

\* A scan of the icon cache that follows a scan, the disk being as it was
IconRescan == icon_op = "scan" /\ icon_scans' = icon_scans + 1

\* A scan of the mime cache that follows a scan and meets the same entries
\* in the same order
MimeRescan ==
    /\ mime_op = "scan" /\ mime_op' = "scan"
    /\ UNCHANGED icon_vars
    /\ mime_order' = mime_order

RescanKeepsMaps ==
    /\ IconRescan => by_full_name' = by_full_name /\ by_name_no_ext' = by_name_no_ext
    /\ MimeRescan => mime_descriptions' = mime_descriptions

\* C32: scan() is idempotent on an unchanged environment: with the
\* filesystem, the environment variables and the enumeration order as they
\* were, a second scan leaves by_full_name and by_name_no_ext (for the mime
\* cache mime_descriptions) as the first scan left them.  For the icon cache
\* this is stated for every enumeration order of the second scan.
C32_RescanIsIdempotent == [][RescanKeepsMaps]_vars

\* Both caches were scanned a second time with something in their maps
C32_Witness ==
    /\ icon_op = "scan" /\ icon_scans >= 2 /\ by_full_name # EmptyMap
    /\ mime_op = "scan" /\ mime_cleared > 0 /\ mime_descriptions # EmptyMap

\* The same of the mime cache for a second scan in any order: it does not
\* hold, two files of one directory that describe one type are read in
\* either order and the first one read wins
MimeRescanAnyOrder ==
    [][(mime_op = "scan" /\ mime_op' = "scan") => mime_descriptions' = mime_descriptions]_vars

----------------------------------------------------------------------------
(* C33 *)

\* An element of a type whose alias is t gave a description before the
\* first element of type t that gives one
CanonicalBeforeDirect(t) ==
    /\ AliasSources(t) # {} /\ DirectSources(t) # {}
    /\ First(AliasSources(t)) < First(DirectSources(t))

\* C33: the description of a type that is both an alias target and declared
\* directly depends on the processing order: when the element of the
\* canonical type is processed before the first direct declaration of the
\* alias type, the alias key keeps the description propagated from the
\* canonical type and the later direct declaration does not replace it.
C33_PropagatedDescriptionStays ==
    mime_op = "scan" =>
        \A t \in {Markdown, XMarkdown, Plain, Blank, Late} :
            CanonicalBeforeDirect(t) =>
                /\ MimeLookupNow(t) # None
                /\ MimeLookupNow(t)[1] \in TextsOf(First(AliasSources(t)))

\* The canonical type was processed first and the direct declaration of its
\* alias gives another text than the one stored
C33_Witness ==
    /\ mime_op = "scan"
    /\ \E t \in {Markdown, XMarkdown, Plain, Blank, Late} :
          /\ CanonicalBeforeDirect(t)
          /\ MimeLookupNow(t) # None
          /\ MimeLookupNow(t)[1] \notin TextsOf(First(DirectSources(t)))

----------------------------------------------------------------------------
(* C34 *)

\* The lines of the alias files in the order get_mime_aliases reads them
RECURSIVE LinesOfPaths(_, _)
LinesOfPaths(paths, i) ==
    IF i > Len(paths) THEN << >>
    ELSE (IF open_alias(alias_files, paths[i]) # None
          THEN open_alias(alias_files, paths[i])[1] ELSE << >>)
         \o LinesOfPaths(paths, i + 1)
LinesInOrder == LinesOfPaths(alias_paths(env), 1)

\* The lines that give key t an alias, and the alias line i gives it
AliasLinesOf(t) ==
    {i \in DOMAIN LinesInOrder : t \in DOMAIN alias_line(EmptyMap, LinesInOrder[i])}
AliasOfLine(i, t) == alias_line(EmptyMap, LinesInOrder[i])[t]

\* Only type A is described by the package files the scan read
OnlyDescribed(A) ==
    /\ \E node \in ScannedNodes : HasDescription(node)
    /\ \A node \in ScannedNodes : HasDescription(node) => node.type = Some(A)

\* The table maps A to B and B to C, and only A is described: B has the
\* description of A and C has none
SingleHop ==
    \A A \in DOMAIN AliasTable :
        LET B == AliasTable[A] IN
        (B \in DOMAIN AliasTable /\ B # A /\ AliasTable[B] \notin {A, B} /\ OnlyDescribed(A))
        => /\ get(mime_descriptions, A) # None
           /\ get(mime_descriptions, B) = get(mime_descriptions, A)
           /\ get(mime_descriptions, AliasTable[B]) = None

\* Nothing but the alias lines of t can give a its description
NoOtherSource(a, t) ==
    \A node \in ScannedNodes :
        HasDescription(node) =>
            /\ node.type # Some(a)
            /\ node.type # Some(t) =>
                   \A i \in AliasLinesOf(node.type[1]) : AliasOfLine(i, node.type[1]) # a

\* Of the aliases the lines give a described type, the one of the last line
\* read has a description and the others get none from that type
OneAliasPerKey ==
    \A t \in DOMAIN AliasTable :
        DirectSources(t) # {} =>
            \A i \in AliasLinesOf(t) :
                LET a == AliasOfLine(i, t) IN
                IF a = AliasOfLine(Last(AliasLinesOf(t)), t)
                THEN get(mime_descriptions, a) # None
                ELSE NoOtherSource(a, t) => get(mime_descriptions, a) = None

\* C34: alias propagation is a single hop and one alias per key: when the
\* alias table maps A to B and B to C and only A is declared in package
\* files, after scan() B has A's description and C has no entry; and a type
\* with several alias lines propagates its description only to the alias of
\* the last such line read.
C34_SingleHopOneAliasPerKey == mime_op = "scan" => (SingleHop /\ OneAliasPerKey)

\* A scan with a chain of two aliases from the only described type, which
\* has two alias lines with different aliases
C34_Witness ==
    /\ mime_op = "scan"
    /\ \E A \in DOMAIN AliasTable :
          /\ AliasTable[A] \in DOMAIN AliasTable /\ AliasTable[A] # A
          /\ AliasTable[AliasTable[A]] \notin {A, AliasTable[A]}
          /\ OnlyDescribed(A)
          /\ \E i \in AliasLinesOf(A) :
                /\ AliasOfLine(i, A) # AliasTable[A]
                /\ NoOtherSource(AliasOfLine(i, A), A)

----------------------------------------------------------------------------
(* C35 *)

\* The file the save dialog of an editing session names
SavedPath == P(<<"home", "u", "p">>)

\* The step is update(msg) for a message msg of kind m
Handles(m) == app'.handled = app.handled + 1 /\ app'.last # None /\ app'.last[1].m = m

\* An edited entry whose current_entry_path a successful save set to
\* SavedPath gets Message::Save, and nothing fails in the write: the entry
\* is written to SavedPath
SaveGoesToSavedPath ==
    (/\ Handles("Save") /\ app'.last[1].outcome = "ok"
     /\ app.current_entry # None
     /\ app.current_entry_changed
     /\ app.current_entry_path = Some(SavedPath))
    => /\ app'.wrote = Some(SavedPath)
       /\ [path |-> SavedPath, body |-> Some([app.current_entry[1] EXCEPT !.path = NoPath])]
             \in app'.desktop_files

\* C35: after a successful save to path P (SaveFinished(Some(P)) with no I/O
\* error, which sets current_entry_path to P and clears
\* current_entry_changed), a later edit followed by Message::Save writes the
\* entry to P, whether the entry was loaded from another file or created
\* with CreateEntry before it was saved to P.
C35_SaveWritesToSavedPath == [][SaveGoesToSavedPath]_vars

\* The same for an entry whose current_entry_path is the path it was loaded
\* from
SaveGoesToLoadedPath ==
    [][(/\ Handles("Save") /\ app'.last[1].outcome = "ok"
        /\ app.current_entry # None
        /\ app.current_entry_changed
        /\ app.current_entry_path = Some(app.current_entry[1].path))
       => app'.wrote = app.current_entry_path]_vars

\* Message::Save wrote the file the entry was loaded from although the entry
\* had been saved to SavedPath
SaveWroteLoadedFile ==
    /\ app.pc = "running" /\ app.last # None /\ app.last[1].m = "Save"
    /\ app.wrote = Some(P(<<"home", "u", "a">>))
    /\ \E d \in app.desktop_files : d.path = SavedPath

\* Message::Save wrote nothing for an edited entry that had been created
\* and saved to SavedPath
SaveWroteNothing ==
    /\ app.pc = "running" /\ app.last # None /\ app.last[1].m = "Save"
    /\ app.current_entry # None /\ app.current_entry[1].path = NoPath
    /\ app.current_entry_path = Some(SavedPath)
    /\ app.current_entry_changed
    /\ app.wrote = None

----------------------------------------------------------------------------
(* C36 *)

\* A desktop file was loaded: current_entry_changed is false
LoadLeavesUnchanged ==
    (Handles("OpenFileFinished") /\ app'.current_entry # None)
    => ~app'.current_entry_changed

\* current_entry_changed becomes true only in an arm that goes through
\* set_text with an entry open
ChangedOnlyBySetText ==
    (Handles(app'.last[1].m) /\ ~app.current_entry_changed /\ app'.current_entry_changed)
    => /\ app'.last[1].m \in {"SetTextEntry", "CreateMimetype", "RemoveMimetype", "CreateEntry"}
       /\ app'.current_entry # None

\* current_entry_changed becomes false only when SaveFinished wrote the
\* entry without error
ClearedOnlyBySave ==
    (Handles(app'.last[1].m) /\ app.current_entry_changed /\ ~app'.current_entry_changed)
    => /\ app'.last[1].m \in {"SaveFinished", "Save"}
       /\ app'.last[1].outcome = "ok"
       /\ app'.wrote # None

\* C36: current_entry_changed is false immediately after a desktop file is
\* successfully loaded, whatever edits were made to the entry open before;
\* it becomes true only through set_text on an open entry and false again
\* only through a successful SaveFinished.
C36_ChangedFlag == [][LoadLeavesUnchanged /\ ChangedOnlyBySetText /\ ClearedOnlyBySave]_vars

\* The two parts about the way the flag changes
ChangedFlagMoves == [][ChangedOnlyBySetText /\ ClearedOnlyBySave]_vars

\* A desktop file was loaded over an edited entry and the flag is still set
LoadedAsChanged ==
    /\ app.pc = "running" /\ app.last # None /\ app.last[1].m = "OpenFileFinished"
    /\ app.current_entry # None
    /\ app.current_entry_changed

----------------------------------------------------------------------------
(* C37 *)

\* SaveFinished(Some(path)) was handled with an entry open and writing it
\* failed
FailedSave ==
    /\ Handles("SaveFinished")
    /\ app'.last[1].res # None /\ app'.last[1].outcome # "ok"
    /\ app.current_entry # None

\* A failed save leaves the three fields alone
FailedSaveKeepsFields ==
    FailedSave =>
        /\ app'.current_entry_changed = app.current_entry_changed
        /\ app'.current_entry_path = app.current_entry_path
        /\ app'.current_entry_error = app.current_entry_error

\* ... and the drawer is open on the error
FailedSaveShowsError ==
    FailedSave =>
        /\ app'.show_context
        /\ app'.context_page = IOError(app'.last[1].e)

\* C37: when writing the entry fails in SaveFinished(Some(path)),
\* current_entry_changed, current_entry_path and current_entry_error are
\* left unchanged and afterwards the context drawer is open on
\* ContextPage::IOError with the text of that error; this holds for every
\* failed save, a second consecutive failure with the same text while the
\* drawer is open included.
C37_FailedSaveShowsError == [][FailedSaveKeepsFields /\ FailedSaveShowsError]_vars

\* The first part alone
FailedSaveKeepsFieldsAlways == [][FailedSaveKeepsFields]_vars

\* The second part for a failure that finds the drawer closed or on
\* another page
FailedSaveShowsErrorFirst ==
    [][(FailedSave /\ ~(app.show_context /\ app.context_page = IOError(app'.last[1].e)))
       => (app'.show_context /\ app'.context_page = IOError(app'.last[1].e))]_vars

\* A save failed and the drawer is closed
FailedSaveClosedDrawer ==
    /\ app.pc = "running" /\ app.last # None /\ app.last[1].m = "SaveFinished"
    /\ app.last[1].res # None /\ app.last[1].outcome # "ok"
    /\ app.current_entry # None
    /\ ~app.show_context

----------------------------------------------------------------------------
(* C38 *)

\* How many times x occurs in a sequence
Occurrences(seq, x) == Cardinality({i \in DOMAIN seq : seq[i] = x})

\* Two sequences hold the same elements the same number of times
SameMultiset(s, t) ==
    \A x \in {s[i] : i \in DOMAIN s} \cup {t[i] : i \in DOMAIN t} :
        Occurrences(s, x) = Occurrences(t, x)

\* The names of the rows of mime_table, and the non-empty items of the
\* MimeType list of the entry
RowNames == [i \in DOMAIN app.mime_table |-> app.mime_table[i].name]
ListItems ==
    IF entry_mime_type(app.current_entry[1]) = None THEN << >>
    ELSE SelectSeq(entry_mime_type(app.current_entry[1])[1], LAMBDA s : s # << >>)

TableMatchesList == SameMultiset(RowNames, ListItems)

RowsAreDescribed ==
    \A i \in DOMAIN app.mime_table :
        app.mime_table[i].description
            = (IF MimeLookupNow(app.mime_table[i].name) # None
               THEN MimeLookupNow(app.mime_table[i].name)[1] ELSE << >>)

\* C38: after any sequence of load, CreateMimetype and RemoveMimetype
\* messages on an open entry, the multiset of the names in mime_table equals
\* the multiset of the non-empty items of the entry's MimeType list, and the
\* description of each row is MimeCache.lookup(name), or the empty string
\* when the cache has no entry.
C38_TableMirrorsList ==
    (app.pc = "running" /\ app.current_entry # None) => (TableMatchesList /\ RowsAreDescribed)

\* The second part alone
RowsAreDescribedAlways == (app.pc = "running" /\ app.current_entry # None) => RowsAreDescribed

\* The first part as long as no text typed into the new-mimetype field has
\* a ';' in it
NoSeparatorTyped ==
    /\ \A i \in DOMAIN app.new_mimetype : app.new_mimetype[i] # ";"
    /\ \A i \in DOMAIN app.mime_table :
          \A j \in DOMAIN app.mime_table[i].name : app.mime_table[i].name[j] # ";"
TableMatchesListWithoutSeparator ==
    (app.pc = "running" /\ app.current_entry # None /\ NoSeparatorTyped) => TableMatchesList

\* CreateMimetype was handled and the table has a row that is no item of
\* the list
RowWithoutItem ==
    /\ app.pc = "running" /\ app.current_entry # None
    /\ app.last # None /\ app.last[1].m = "CreateMimetype"
    /\ \E i \in DOMAIN RowNames : \A j \in DOMAIN ListItems : ListItems[j] # RowNames[i]

----------------------------------------------------------------------------
(* C39 *)

\* The state after the "Remove <name>" action of the context menu of a row
\* of the table was chosen
ContextRemove(row) ==
    update(app, [m |-> "RemoveMimetype", pos |-> item_context(app, row)])

\* The names of the rows of a table and the non-empty items of the MimeType
\* list of the entry of an application state
NamesOf(table) == [i \in DOMAIN table |-> table[i].name]
ItemsOf(a) ==
    IF a.current_entry = None \/ entry_mime_type(a.current_entry[1]) = None THEN << >>
    ELSE SelectSeq(entry_mime_type(a.current_entry[1])[1], LAMBDA s : s # << >>)

\* The position sent is that of a row with the name of the menu's row
SendsPositionOfName(row) ==
    /\ item_context(app, row) # None
    /\ item_context(app, row)[1] + 1 \in DOMAIN app.mime_table
    /\ app.mime_table[item_context(app, row)[1] + 1].name = app.mime_table[row].name

\* One row with the name of the menu's row left the table, no other row did,
\* and the name is one time less in the list
RemovesRowNamed(row) ==
    LET b    == ContextRemove(row)
        name == app.mime_table[row].name
    IN /\ Len(b.mime_table) = Len(app.mime_table) - 1
       /\ Occurrences(NamesOf(b.mime_table), name)
            = Occurrences(NamesOf(app.mime_table), name) - 1
       /\ \A i \in DOMAIN app.mime_table :
             app.mime_table[i].name # name
                => Occurrences(NamesOf(b.mime_table), app.mime_table[i].name)
                    = Occurrences(NamesOf(app.mime_table), app.mime_table[i].name)
       /\ Occurrences(ItemsOf(b), name) = Occurrences(ItemsOf(app), name) - 1

\* C39: in every reachable state the "Remove <name>" action of the context
\* menu of a row of the mime table sends the position of a row named <name>,
\* and the RemoveMimetype handler then removes a row of that name from the
\* table and the name from the MimeType list of the entry.
C39_ContextRemoveRemovesNamedRow ==
    (app.pc = "running" /\ app.current_entry # None)
        => \A row \in DOMAIN app.mime_table : SendsPositionOfName(row) /\ RemovesRowNamed(row)

\* The rows of the table are the items of the MimeType list, in the order
\* of the list
TableInListOrder ==
    /\ entry_mime_type(app.current_entry[1]) # None
    /\ \A i \in DOMAIN app.mime_table :
          /\ i \in DOMAIN entry_mime_type(app.current_entry[1])[1]
          /\ entry_mime_type(app.current_entry[1])[1][i] = app.mime_table[i].name

\* The claim in the states where table and list are in the same order
ContextRemoveInListOrder ==
    (app.pc = "running" /\ app.current_entry # None /\ TableInListOrder)
        => \A row \in DOMAIN app.mime_table : SendsPositionOfName(row) /\ RemovesRowNamed(row)

\* CreateMimetype added a type to an entry that had types, and the menu of
\* a row sends the position of a row of another name
RemoveOfAnotherRow ==
    /\ app.pc = "running" /\ app.current_entry # None
    /\ app.last # None /\ app.last[1].m = "CreateMimetype"
    /\ Len(app.mime_table) > 1
    /\ \E row \in DOMAIN app.mime_table :
          /\ item_context(app, row) # None
          /\ item_context(app, row)[1] + 1 \in DOMAIN app.mime_table
          /\ app.mime_table[item_context(app, row)[1] + 1].name # app.mime_table[row].name

----------------------------------------------------------------------------
(* C40 *)

\* current_entry and current_entry_error are not both set
EntryOrError == app.current_entry = None \/ app.current_entry_error = None

\* The path of an OpenFileFinished message names no file of the disk, or
\* one that cannot be decoded
Unloadable(path) ==
    \/ ~exists(app, path)
    \/ \E d \in app.desktop_files : d.path = path /\ d.body = None

\* A load that fails leaves no entry, and sets the error
FailedLoadLeavesNoEntry ==
    (/\ Handles("OpenFileFinished")
     /\ app'.last[1].path # None /\ app'.last[1].kind = "DesktopFile"
     /\ Unloadable(app'.last[1].path[1]))
        => app'.current_entry = None /\ app'.current_entry_error # None

\* A load or a creation that sets an entry comes with no error
EntrySetWithoutError ==
    ((Handles("OpenFileFinished") \/ Handles("CreateEntry")) /\ app'.current_entry # None)
        => app'.current_entry_error = None

\* C40: in every reachable state of the application current_entry and
\* current_entry_error are never both set; loading and creating an entry
\* reset the error before they set an entry, and a load that fails (file not
\* found, decode error, missing argument) leaves current_entry = None.
C40_EntryAndErrorExclusive ==
    /\ [](app.pc = "running" => EntryOrError)
    /\ [][FailedLoadLeavesNoEntry /\ EntrySetWithoutError]_vars

\* An entry was created or loaded after a load had failed, or a load failed
\* over an open entry
C40_Witness ==
    /\ app.pc = "running" /\ app.handled >= 2 /\ app.last # None
    /\ \/ app.last[1].m = "CreateEntry" /\ app.current_entry # None
       \/ app.last[1].m = "OpenFileFinished" /\ app.current_entry_error # None

====
